---- MODULE Spec2Model ----
(***************************************************************************)
(* Verification model of the MAC slot scheduler core:                      *)
(*   - the HARQ process state machine (lib/mac/sched/sched_harq.cc),       *)
(*   - the double-buffered event lists of the scheduler event manager      *)
(*     (lib/scheduler/event_manager.h).                                    *)
(***************************************************************************)
EXTENDS Integers, Sequences, FiniteSets, TLC

VARIABLES
    h,          \* the harq_proc under analysis (its tb[0], slots, max_retx, prbs_)
    op,         \* the last call made on h: its name and what it returned
    scen,       \* position of the scripted driver of Scenario A
    next_events,    \* per event list: the events accepted for the next slot
    current_events, \* per event list: the events of the slot being processed
    last_sl_tx,     \* slot for which the common list was last swapped
    ue_db,          \* the UE indices that exist
    slot,           \* the slot driver: current slot, cells started, cells done
    run,            \* the run(sl_tx, cell_index) call in progress and its position
    n_swaps,        \* per event list: how many slots it has been swapped for
    ev_log,         \* per event: when it was enqueued and what became of it
    n_events,       \* number of events enqueued so far
    ent,            \* a harq_entity: its slot, its DL and UL processes, its last log lines
    du,             \* the du_configuration_manager, its handlers, the last result
    thr,            \* per cell: position of the run call on that cell's own thread
    mtx,            \* the mutexes of the event lists and the producer call in progress
    pipe,           \* the slot processing of one cell: its step, its slot, its lists
    f1u,            \* the f1u_local_connector: its map of CU bearers and its map of DU bearers
    dci             \* a dl_harq_proc or ul_harq_proc over h: its kind, its pid, the caller's DCI

hvars == <<h, op, scen>>

evars == <<next_events, current_events, last_sl_tx, ue_db, slot, run, n_swaps, ev_log,
           n_events, thr, mtx, pipe, f1u>>

\* the variables outside the HARQ process, and those outside the event manager
others_h == <<next_events, current_events, last_sl_tx, ue_db, slot, run, n_swaps, ev_log,
              n_events, ent, du, dci, thr, mtx, pipe, f1u>>

others_e == <<h, op, scen, ent, du, dci, thr, mtx, pipe, f1u>>

\* those outside the event manager and its threads
others_t == <<h, op, scen, ent, du, dci, run, mtx, pipe, f1u>>

\* the event lists and the driver, without the threads and the mutexes
evars_m == <<next_events, current_events, last_sl_tx, ue_db, slot, n_swaps, ev_log,
             n_events>>

\* those outside the event manager, its threads and its mutexes
others_m == <<h, op, scen, ent, du, dci, run, pipe, f1u>>

\* those outside the slot processing of the cell and the HARQ entity of its UE
others_p == <<h, op, scen, next_events, current_events, last_sl_tx, ue_db, slot, run,
              n_swaps, ev_log, n_events, du, dci, thr, mtx, f1u>>

\* those outside the F1-U connector
others_f == <<h, op, scen, next_events, current_events, last_sl_tx, ue_db, slot, run,
              n_swaps, ev_log, n_events, ent, du, dci, thr, mtx, pipe>>

vars == <<h, op, scen, next_events, current_events, last_sl_tx, ue_db, slot, run,
          n_swaps, ev_log, n_events, ent, du, dci, thr, mtx, pipe, f1u>>

(***************************************************************************)
(* Values                                                                  *)
(***************************************************************************)

\* A uint32_t that can hold values above the largest int is kept as its two
\* 16-bit halves: value = hi * 2^16 + lo.
U32(n) == [hi |-> n \div (2^16), lo |-> n % (2^16)]

\* std::numeric_limits<uint32_t>::max()
Uint32Max == [hi |-> 2^16 - 1, lo |-> 2^16 - 1]

\* number of slots after which a slot_point wraps (1024 frames of 10 slots at 15 kHz)
NofSlots == 10240

\* how many consecutive slot values, taken across the wrap point, calls may use
SlotWindow == 3

\* largest max_retx handed to new_tx
MaxMaxRetx == 1

\* new_retx is not called any more once n_rtx has reached this value
NRtxCap == MaxMaxRetx + 1

\* number of RBGs (type-0) and of PRBs (type-1) a grant can span, where the calls
\* vary the shape of the grant
ShapeRbgs == 2

\* Scenario A: the last slot new_slot is called for, and the longest ack delay
\* of a retransmission
ScenLastSlot == 34

ScenMaxDelay == 3

SlotVals == {(NofSlots - 1 + i) % NofSlots : i \in 0..(SlotWindow - 1)}

MaxRetxVals == 0..MaxMaxRetx

McsVals == {U32(5), U32(9)}

TbsVals == {U32(100), Uint32Max}

\* prb_grant: a type-0 grant carries an RBG bitmap, a type-1 grant a PRB interval
Type0Grant(rbgs) == [alloc_type0 |-> TRUE, rbgs |-> rbgs, start |-> 0, stop |-> 0]

Type1Grant(start, stop) == [alloc_type0 |-> FALSE, rbgs |-> {}, start |-> start, stop |-> stop]

Type1Grants(n) == {g \in {Type1Grant(a, b) : a \in 0..n, b \in 0..n} : g.start < g.stop}

GrantsOver(n) == {Type0Grant(s) : s \in (SUBSET (0..(n - 1))) \ {{}}} \cup Type1Grants(n)

\* one grant of each allocation type, for the calls that do not vary the shape
Grants == {Type0Grant({0}), Type1Grant(0, 1)}

ShapeGrants == GrantsOver(ShapeRbgs)

\* <<slot_tx, slot_ack>> of a transmission: the ack is expected in the slot of the
\* transmission (uplink) or in the one after it
SlotPairs == {<<(a + NofSlots - d) % NofSlots, a>> : a \in SlotVals, d \in {0, 1}}

ShapeSlotPairs == {<<a, a>> : a \in {0, 1}}

\* rbg_bitmap::count()
RbgCount(g) == Cardinality(g.rbgs)

\* prb_interval::length()
PrbLength(g) == g.stop - g.start

\* comparison of the slot counts that ignores the wrap
SlotLess_linear(a, b) == a < b

\* slot_point::operator< : order on a circle of NofSlots slots
SlotLess(a, b) ==
    LET v == b - a
    IN  IF v = 0 THEN FALSE
        ELSE IF v > 0 THEN v < NofSlots \div 2
        ELSE v < -(NofSlots \div 2)

\* conversion of a uint32_t to the 32-bit int that ack_info returns
ToInt(u) == IF u.hi >= 2^15 THEN (u.hi - 2^16) * (2^16) + u.lo ELSE u.hi * (2^16) + u.lo

(***************************************************************************)
(* harq_proc                                                               *)
(***************************************************************************)

\* a harq_proc right after construction
HarqInit ==
    [state |-> "empty", ack_state |-> FALSE, ndi |-> FALSE, n_rtx |-> 0,
     mcs |-> U32(0), tbs |-> U32(0), max_retx |-> 1,
     slot_tx |-> 0, slot_ack |-> 0, prbs |-> Type1Grant(0, 0)]

\* new_slot without the wait for the ack slot
new_slot_no_wait(p, slot_rx) ==
    IF p.state = "empty" THEN p
    ELSE LET q == IF p.state = "waiting_ack" THEN [p EXCEPT !.state = "pending_retx"] ELSE p
         IN  IF q.n_rtx + 1 > q.max_retx THEN [q EXCEPT !.state = "empty"] ELSE q

\* new_slot that discards one retransmission too late (n_rtx > max_retx)
new_slot_late_discard(p, slot_rx) ==
    IF p.state = "empty" THEN p
    ELSE IF SlotLess(slot_rx, p.slot_ack) THEN p
    ELSE LET q == IF p.state = "waiting_ack" THEN [p EXCEPT !.state = "pending_retx"] ELSE p
         IN  IF q.n_rtx > q.max_retx THEN [q EXCEPT !.state = "empty"] ELSE q

\* new_slot that counts an elapsed ack slot as a retransmission
new_slot_counting(p, slot_rx) ==
    IF p.state = "empty" THEN p
    ELSE IF SlotLess(slot_rx, p.slot_ack) THEN p
    ELSE LET q == [p EXCEPT !.state = "pending_retx", !.n_rtx = p.n_rtx + 1]
         IN  IF q.n_rtx > q.max_retx THEN [q EXCEPT !.state = "empty"] ELSE q

\* new_slot that discards a process at its retransmission limit as soon as its
\* retransmission is pending, before the ack slot
new_slot_early_discard(p, slot_rx) ==
    IF p.state = "empty" THEN p
    ELSE IF p.state = "pending_retx" /\ p.n_rtx + 1 > p.max_retx
    THEN [p EXCEPT !.state = "empty"]
    ELSE IF SlotLess(slot_rx, p.slot_ack) THEN p
    ELSE LET q == IF p.state = "waiting_ack" THEN [p EXCEPT !.state = "pending_retx"] ELSE p
         IN  IF q.n_rtx + 1 > q.max_retx THEN [q EXCEPT !.state = "empty"] ELSE q

new_slot(p, slot_rx) ==
    IF p.state = "empty" THEN p
    ELSE IF SlotLess(slot_rx, p.slot_ack) THEN p
    ELSE LET q == IF p.state = "waiting_ack" THEN [p EXCEPT !.state = "pending_retx"] ELSE p
         IN  IF q.n_rtx + 1 > q.max_retx THEN [q EXCEPT !.state = "empty"] ELSE q

\* ack_info that records the ack before it tests for an empty process
ack_info_unchecked(p, ack) ==
    IF p.state = "empty" THEN [h |-> [p EXCEPT !.ack_state = ack], ret |-> -1]
    ELSE [h   |-> [p EXCEPT !.ack_state = ack,
                            !.state = IF ack THEN "empty" ELSE "pending_retx"],
          ret |-> IF ack THEN ToInt(p.tbs) ELSE 0]

\* ack_info that clears the count of retransmissions when the block is acknowledged
ack_info_clearing(p, ack) ==
    IF p.state = "empty" THEN [h |-> p, ret |-> -1]
    ELSE [h   |-> [p EXCEPT !.ack_state = ack,
                            !.state = IF ack THEN "empty" ELSE "pending_retx",
                            !.n_rtx = IF ack THEN 0 ELSE @],
          ret |-> IF ack THEN ToInt(p.tbs) ELSE 0]

\* ack_info without the test for an empty process
ack_info_any_state(p, ack) ==
    [h   |-> [p EXCEPT !.ack_state = ack,
                       !.state = IF ack THEN "empty" ELSE "pending_retx"],
     ret |-> IF ack THEN ToInt(p.tbs) ELSE 0]

ack_info(p, ack) ==
    IF p.state = "empty" THEN [h |-> p, ret |-> -1]
    ELSE [h   |-> [p EXCEPT !.ack_state = ack,
                            !.state = IF ack THEN "empty" ELSE "pending_retx"],
          ret |-> IF ack THEN ToInt(p.tbs) ELSE 0]

reset(p) ==
    [p EXCEPT !.ack_state = FALSE, !.state = "empty", !.n_rtx = 0,
              !.mcs = Uint32Max, !.tbs = Uint32Max]

\* new_tx that does not toggle ndi
new_tx_ndi_kept(p, slot_tx_, slot_ack_, grant, mcs, max_retx_) ==
    IF p.state # "empty" THEN [h |-> p, ret |-> FALSE]
    ELSE [h   |-> [reset(p) EXCEPT !.max_retx = max_retx_, !.slot_tx = slot_tx_,
                                   !.slot_ack = slot_ack_, !.prbs = grant,
                                   !.mcs = mcs, !.tbs = U32(0),
                                   !.state = "waiting_ack"],
          ret |-> TRUE]

\* new_tx without the reset of the previous transport block
new_tx_no_reset(p, slot_tx_, slot_ack_, grant, mcs, max_retx_) ==
    IF p.state # "empty" THEN [h |-> p, ret |-> FALSE]
    ELSE [h   |-> [p EXCEPT !.max_retx = max_retx_, !.slot_tx = slot_tx_,
                            !.slot_ack = slot_ack_, !.prbs = grant,
                            !.ndi = ~p.ndi, !.mcs = mcs, !.tbs = U32(0),
                            !.state = "waiting_ack"],
          ret |-> TRUE]

new_tx(p, slot_tx_, slot_ack_, grant, mcs, max_retx_) ==
    IF p.state # "empty" THEN [h |-> p, ret |-> FALSE]
    ELSE [h   |-> [reset(p) EXCEPT !.max_retx = max_retx_, !.slot_tx = slot_tx_,
                                   !.slot_ack = slot_ack_, !.prbs = grant,
                                   !.ndi = ~p.ndi, !.mcs = mcs, !.tbs = U32(0),
                                   !.state = "waiting_ack"],
          ret |-> TRUE]

\* set_tbs that is refused while a retransmission is pending
set_tbs_waiting_only(p, tbs) ==
    IF p.state # "waiting_ack" \/ p.n_rtx > 0 THEN [h |-> p, ret |-> FALSE]
    ELSE [h |-> [p EXCEPT !.tbs = tbs], ret |-> TRUE]

set_tbs(p, tbs) ==
    IF p.state = "empty" \/ p.n_rtx > 0 THEN [h |-> p, ret |-> FALSE]
    ELSE [h |-> [p EXCEPT !.tbs = tbs], ret |-> TRUE]

set_mcs(p, mcs) ==
    IF p.state = "empty" \/ p.n_rtx > 0 THEN [h |-> p, ret |-> FALSE]
    ELSE [h |-> [p EXCEPT !.mcs = mcs], ret |-> TRUE]

\* new_retx that does not count the retransmission
new_retx_uncounted(p, slot_tx_, slot_ack_) ==
    IF p.state # "pending_retx" THEN [h |-> p, ret |-> FALSE]
    ELSE [h   |-> [p EXCEPT !.slot_tx = slot_tx_, !.slot_ack = slot_ack_,
                            !.state = "waiting_ack", !.ack_state = FALSE],
          ret |-> TRUE]

\* new_retx that toggles ndi as a new transmission does
new_retx_ndi_toggled(p, slot_tx_, slot_ack_) ==
    IF p.state # "pending_retx" THEN [h |-> p, ret |-> FALSE]
    ELSE [h   |-> [p EXCEPT !.slot_tx = slot_tx_, !.slot_ack = slot_ack_,
                            !.state = "waiting_ack", !.ack_state = FALSE,
                            !.n_rtx = p.n_rtx + 1, !.ndi = ~p.ndi],
          ret |-> TRUE]

\* new_retx(slot_tx_, slot_ack_)
new_retx(p, slot_tx_, slot_ack_) ==
    IF p.state # "pending_retx" THEN [h |-> p, ret |-> FALSE]
    ELSE [h   |-> [p EXCEPT !.slot_tx = slot_tx_, !.slot_ack = slot_ack_,
                            !.state = "waiting_ack", !.ack_state = FALSE,
                            !.n_rtx = p.n_rtx + 1],
          ret |-> TRUE]

\* shape test that compares the allocation types only
ShapeDiffers_type_only(grant, prbs_) == grant.alloc_type0 # prbs_.alloc_type0

\* the shape test that opens new_retx(slot_tx_, slot_ack_, grant)
ShapeDiffers(grant, prbs_) ==
    \/ grant.alloc_type0 # prbs_.alloc_type0
    \/ (grant.alloc_type0 /\ RbgCount(grant) # RbgCount(prbs_))
    \/ (~grant.alloc_type0 /\ PrbLength(grant) # PrbLength(prbs_))

\* new_retx(slot_tx_, slot_ack_, grant) that stores the grant before it knows
\* whether the retransmission is accepted
new_retx_grant_stored_first(p, slot_tx_, slot_ack_, grant) ==
    IF ShapeDiffers(grant, p.prbs) THEN [h |-> p, ret |-> FALSE]
    ELSE LET r == new_retx(p, slot_tx_, slot_ack_)
         IN  [h |-> [r.h EXCEPT !.prbs = grant], ret |-> r.ret]

\* new_retx(slot_tx_, slot_ack_, grant)
new_retx_grant(p, slot_tx_, slot_ack_, grant) ==
    IF ShapeDiffers(grant, p.prbs) THEN [h |-> p, ret |-> FALSE]
    ELSE LET r == new_retx(p, slot_tx_, slot_ack_)
         IN  IF r.ret THEN [h |-> [r.h EXCEPT !.prbs = grant], ret |-> TRUE]
             ELSE [h |-> r.h, ret |-> FALSE]

(***************************************************************************)
(* Calls on one harq_proc, in any order and with any arguments.            *)
(* op records the call: its name, the state it found, and what it returned *)
(* (ok for a bool, val for an int).                                        *)
(***************************************************************************)

BoolCall(name, p, r) == [name |-> name, from |-> p.state, ok |-> r.ret, val |-> 0]

IntCall(name, p, r) == [name |-> name, from |-> p.state, ok |-> FALSE, val |-> r.ret]

NewSlot(slot_rx) ==
    /\ h' = new_slot(h, slot_rx)
    /\ op' = [name |-> "new_slot", from |-> h.state, ok |-> FALSE, val |-> 0]
    /\ UNCHANGED scen
    /\ UNCHANGED others_h

AckInfo(ack) ==
    /\ h' = ack_info(h, ack).h
    /\ op' = IntCall("ack_info", h, ack_info(h, ack))
    /\ UNCHANGED scen
    /\ UNCHANGED others_h

NewTx(slot_tx_, slot_ack_, grant, mcs, max_retx_) ==
    /\ h' = new_tx(h, slot_tx_, slot_ack_, grant, mcs, max_retx_).h
    /\ op' = BoolCall("new_tx", h, new_tx(h, slot_tx_, slot_ack_, grant, mcs, max_retx_))
    /\ UNCHANGED scen
    /\ UNCHANGED others_h

SetTbs(tbs) ==
    /\ h' = set_tbs(h, tbs).h
    /\ op' = BoolCall("set_tbs", h, set_tbs(h, tbs))
    /\ UNCHANGED scen
    /\ UNCHANGED others_h

SetMcs(mcs) ==
    /\ h' = set_mcs(h, mcs).h
    /\ op' = BoolCall("set_mcs", h, set_mcs(h, mcs))
    /\ UNCHANGED scen
    /\ UNCHANGED others_h

NewRetx(slot_tx_, slot_ack_) ==
    /\ h.n_rtx < NRtxCap
    /\ h' = new_retx(h, slot_tx_, slot_ack_).h
    /\ op' = BoolCall("new_retx", h, new_retx(h, slot_tx_, slot_ack_))
    /\ UNCHANGED scen
    /\ UNCHANGED others_h

NewRetxGrant(slot_tx_, slot_ack_, grant) ==
    /\ h.n_rtx < NRtxCap
    /\ h' = new_retx_grant(h, slot_tx_, slot_ack_, grant).h
    /\ op' = BoolCall("new_retx_grant", h, new_retx_grant(h, slot_tx_, slot_ack_, grant))
    /\ UNCHANGED scen
    /\ UNCHANGED others_h

NoCall == [name |-> "none", from |-> "empty", ok |-> FALSE, val |-> 0]

ScenIdle == [now |-> 0, started |-> FALSE, retx_ok |-> 0]

HarqStart ==
    /\ h = HarqInit
    /\ op = NoCall
    /\ scen = ScenIdle

(***************************************************************************)
(* event_manager: one event list per cell and one common list, each made   *)
(* of a next and a current buffer.  Producer calls append to a next buffer *)
(* under the list's mutex; run(sl_tx, cell_index) swaps the buffers under  *)
(* the mutex and then drains the current buffer.  An append and a swap are *)
(* the critical sections of the mutex, hence one step each.                *)
(***************************************************************************)

\* the cells (du_cell_index_t) of the model
Cells == {1, 2}

\* the common event list, beside the lists 1 and 2 of the cells
CommonList == 0

Lists == Cells \cup {CommonList}

\* UE 1 has one carrier, on cell 1; UE 2 has carrier aggregation on cells 1 and 2
Ues == {1, 2}

CellsOf(ue) == IF ue = 1 THEN {1} ELSE {1, 2}

\* event_t::ue_index of an event bound to no UE (MAX_NOF_DU_UES)
NoUe == 0

\* event that carries no cell index
NoCell == -1

\* the first cell index past the cells of the scheduler
UnknownCell == Cardinality(Cells) + 1

\* the cell indices a cell configuration request names: the last cell of the
\* scheduler and the first index past it
CfgCells == {Cardinality(Cells), UnknownCell}

\* slot of the first slot indication: the last slot before the slot counter wraps
FirstSlot == NofSlots - 1

\* slot_point: ++slot and slot - 1, modulo the period
SlotNext(s) == (s + 1) % NofSlots

SlotPrev(s) == (s + NofSlots - 1) % NofSlots

\* number of events the producers enqueue
MaxEvents == 2

\* number of times the driver moves to the next slot
MaxSlot == 1

EventIds == 1..MaxEvents

NotEnqueued ==
    [list |-> -1, enq_swaps |-> -1, enq_slot |-> -1, enq_busy |-> FALSE,
     seen_swaps |-> -1, execs |-> 0,
     exec_swaps |-> -1, exec_slot |-> -1, dropped |-> FALSE, requeues |-> 0]

\* owner of an event_list::mutex: nobody, the producer thread, or the run thread
\* of a cell (the cell's index)
Free == -1

Producer == 0

\* no producer call is in progress
NoProducer == [list |-> -1, ue |-> NoUe, locked |-> FALSE]

EventStart ==
    /\ next_events = [l \in Lists |-> <<>>]
    /\ current_events = [l \in Lists |-> <<>>]
    /\ last_sl_tx = -1
    /\ ue_db = Ues
    /\ slot = [sl_tx |-> FirstSlot, n |-> 0, started |-> {1}, done |-> {},
               list_slot |-> [l \in Lists |-> -1], res |-> [c \in Cells |-> -1]]
    /\ run = [cell |-> 0, pc |-> "idle"]
    /\ n_swaps = [l \in Lists |-> 0]
    /\ ev_log = [e \in EventIds |-> NotEnqueued]
    /\ n_events = 0
    /\ thr = [c \in Cells |-> "idle"]
    /\ mtx = [held |-> [l \in Lists |-> Free], prod |-> NoProducer]

\* run is draining the current buffer of the list
Draining(list) ==
    \/ list = CommonList /\ run.pc = "common_drain"
    \/ list # CommonList /\ run.pc = "cell_drain" /\ run.cell = list
    \/ list = CommonList /\ \E c \in Cells : thr[c] = "common_drain"
    \/ list # CommonList /\ thr[list] = "cell_drain"

\* append to the buffer that is being drained
Enqueue_current(list, ue, cell) ==
    /\ n_events < MaxEvents
    /\ n_events' = n_events + 1
    /\ current_events' =
          [current_events EXCEPT ![list] = Append(@, [id |-> n_events + 1, ue |-> ue, cell |-> cell])]
    /\ ev_log' = [ev_log EXCEPT ![n_events + 1] =
                     [NotEnqueued EXCEPT !.list = list, !.enq_swaps = n_swaps[list],
                                         !.enq_slot = slot.list_slot[list],
                                         !.enq_busy = Draining(list)]]
    /\ UNCHANGED <<next_events, last_sl_tx, ue_db, slot, run, n_swaps>>
    /\ UNCHANGED others_e

\* insertion at the front of the next buffer
Enqueue_front(list, ue, cell) ==
    /\ n_events < MaxEvents
    /\ n_events' = n_events + 1
    /\ next_events' = [next_events EXCEPT ![list] = <<[id |-> n_events + 1, ue |-> ue, cell |-> cell]>> \o @]
    /\ ev_log' = [ev_log EXCEPT ![n_events + 1] =
                     [NotEnqueued EXCEPT !.list = list, !.enq_swaps = n_swaps[list],
                                         !.enq_slot = slot.list_slot[list],
                                         !.enq_busy = Draining(list)]]
    /\ UNCHANGED <<current_events, last_sl_tx, ue_db, slot, run, n_swaps>>
    /\ UNCHANGED others_e

\* event_list: append an event to the next buffer (under the mutex)
Enqueue(list, ue, cell) ==
    /\ n_events < MaxEvents
    /\ n_events' = n_events + 1
    /\ next_events' = [next_events EXCEPT ![list] = Append(@, [id |-> n_events + 1, ue |-> ue, cell |-> cell])]
    /\ ev_log' = [ev_log EXCEPT ![n_events + 1] =
                     [NotEnqueued EXCEPT !.list = list, !.enq_swaps = n_swaps[list],
                                         !.enq_slot = slot.list_slot[list],
                                         !.enq_busy = Draining(list)]]
    /\ UNCHANGED <<current_events, last_sl_tx, ue_db, slot, run, n_swaps>>
    /\ UNCHANGED others_e

\* events of a UE with carrier aggregation go to the common list, the others to
\* the list of the cell the indication names
ListOf(cell, ue) == IF Cardinality(CellsOf(ue)) > 1 THEN CommonList ELSE cell

handle_sr_indication(cell, ue) == Enqueue(ListOf(cell, ue), ue, NoCell)

handle_ul_bsr(cell, ue) == Enqueue(ListOf(cell, ue), ue, NoCell)

handle_rach_indication(cell) == Enqueue(cell, NoUe, NoCell)

\* the request names the cell to configure; it is applied in the slot processing
handle_cell_configuration_request(cell) == Enqueue(CommonList, NoUe, cell)

\* a copy of the next buffer instead of the exchange
SwapBuffers_copy(list) ==
    /\ next_events' = next_events
    /\ current_events' = [current_events EXCEPT ![list] = next_events[list]]
    /\ n_swaps' = [n_swaps EXCEPT ![list] = @ + 1]

\* event_list: exchange the next and the current buffer (under the mutex)
SwapBuffers(list) ==
    /\ next_events' = [next_events EXCEPT ![list] = current_events[list]]
    /\ current_events' = [current_events EXCEPT ![list] = next_events[list]]
    /\ n_swaps' = [n_swaps EXCEPT ![list] = @ + 1]

\* the event at the head of a current buffer is taken out of it
PopCurrent(list) == current_events' = [current_events EXCEPT ![list] = Tail(@)]

Seen(e) == IF e.seen_swaps = -1 THEN [e EXCEPT !.seen_swaps = n_swaps[e.list]] ELSE e

\* the callback of the event runs
Executed(id) ==
    [ev_log EXCEPT ![id] = [Seen(@) EXCEPT !.execs = @ + 1,
                                           !.exec_swaps = n_swaps[ev_log[id].list],
                                           !.exec_slot = slot.sl_tx]]

\* log_invalid_ue_index: the event is discarded, its callback does not run
Dropped(id) == [ev_log EXCEPT ![id] = [Seen(@) EXCEPT !.dropped = TRUE]]

Requeued(id) == [ev_log EXCEPT ![id] = [Seen(@) EXCEPT !.requeues = @ + 1]]

\* slot_indication without a result
Returned_null(cell) == [slot EXCEPT !.done = @ \cup {cell}]

\* slot_indication(sl_tx, cell) returns: the result of the slot is published
Returned(cell) == [slot EXCEPT !.done = @ \cup {cell}, !.res[cell] = slot.sl_tx]

\* the driver starts run(sl_tx, cell_index) for a started cell not yet run in this
\* slot: the cell's buffers are swapped
RunCellSwap(cell) ==
    /\ run.pc = "idle"
    /\ cell \in slot.started \ slot.done
    /\ SwapBuffers(cell)
    /\ slot' = [slot EXCEPT !.list_slot[cell] = slot.sl_tx]
    /\ run' = [cell |-> cell, pc |-> "cell_drain"]
    /\ UNCHANGED <<last_sl_tx, ue_db, ev_log, n_events>>
    /\ UNCHANGED others_e

\* drain of the cell's current buffer: the UE exists (or the event has none)
RunCellExecute ==
    /\ run.pc = "cell_drain"
    /\ current_events[run.cell] # <<>>
    /\ LET ev == Head(current_events[run.cell])
       IN  /\ ev.ue = NoUe \/ ev.ue \in ue_db
           /\ ev_log' = Executed(ev.id)
    /\ PopCurrent(run.cell)
    /\ UNCHANGED <<next_events, last_sl_tx, ue_db, slot, run, n_swaps, n_events>>
    /\ UNCHANGED others_e

\* the drain is given up at an event whose UE does not exist any more
RunCellDrop_abort ==
    /\ run.pc = "cell_drain"
    /\ current_events[run.cell] # <<>>
    /\ LET ev == Head(current_events[run.cell])
       IN  /\ ev.ue # NoUe /\ ev.ue \notin ue_db
           /\ ev_log' = Dropped(ev.id)
    /\ current_events' = [current_events EXCEPT ![run.cell] = <<>>]
    /\ UNCHANGED <<next_events, last_sl_tx, ue_db, slot, run, n_swaps, n_events>>
    /\ UNCHANGED others_e

\* drain of the cell's current buffer: the UE does not exist any more
RunCellDrop ==
    /\ run.pc = "cell_drain"
    /\ current_events[run.cell] # <<>>
    /\ LET ev == Head(current_events[run.cell])
       IN  /\ ev.ue # NoUe /\ ev.ue \notin ue_db
           /\ ev_log' = Dropped(ev.id)
    /\ PopCurrent(run.cell)
    /\ UNCHANGED <<next_events, last_sl_tx, ue_db, slot, run, n_swaps, n_events>>
    /\ UNCHANGED others_e

\* the cell's buffer is drained; the first cell run in a slot goes on to swap the
\* common list
RunCommonSwap ==
    /\ run.pc = "cell_drain"
    /\ current_events[run.cell] = <<>>
    /\ IF last_sl_tx # slot.sl_tx
       THEN /\ SwapBuffers(CommonList)
            /\ last_sl_tx' = slot.sl_tx
            /\ slot' = [slot EXCEPT !.list_slot[CommonList] = slot.sl_tx]
            /\ run' = [run EXCEPT !.pc = "common_drain"]
       ELSE /\ run' = [cell |-> 0, pc |-> "idle"]
            /\ slot' = Returned(run.cell)
            /\ UNCHANGED <<next_events, current_events, n_swaps, last_sl_tx>>
    /\ UNCHANGED <<ue_db, ev_log, n_events>>
    /\ UNCHANGED others_e

\* event_requires_sync: the event is directed at a UE with carrier aggregation
event_requires_sync(ev) ==
    ev.ue # NoUe /\ ev.ue \in ue_db /\ Cardinality(CellsOf(ev.ue)) > 1

\* every carrier of the UE has already been run for the very slot being processed
Synchronized_same_slot(ue) ==
    \A c \in CellsOf(ue) : c \in slot.started /\ slot.list_slot[c] = slot.sl_tx

\* every carrier of the UE has reached the boundary of the slot being processed
Synchronized(ue) ==
    \A c \in CellsOf(ue) :
        /\ c \in slot.started
        /\ slot.list_slot[c] # -1
        /\ ~SlotLess(slot.list_slot[c], SlotPrev(slot.sl_tx))

\* every cell index counts as an existing cell
cell_exists_any(cell_index) == TRUE

\* cell_exists: the index is that of a cell of the scheduler
cell_exists(cell_index) == cell_index \in Cells

RunCommonExecute ==
    /\ run.pc = "common_drain"
    /\ current_events[CommonList] # <<>>
    /\ LET ev == Head(current_events[CommonList])
       IN  /\ ev.ue = NoUe \/ ev.ue \in ue_db
           /\ ev.cell = NoCell \/ cell_exists(ev.cell)
           /\ event_requires_sync(ev) => Synchronized(ev.ue)
           /\ ev_log' = Executed(ev.id)
    /\ PopCurrent(CommonList)
    /\ UNCHANGED <<next_events, last_sl_tx, ue_db, slot, run, n_swaps, n_events>>
    /\ UNCHANGED others_e

RunCommonDrop ==
    /\ run.pc = "common_drain"
    /\ current_events[CommonList] # <<>>
    /\ LET ev == Head(current_events[CommonList])
       IN  /\ ev.ue # NoUe /\ ev.ue \notin ue_db
           /\ ev_log' = Dropped(ev.id)
    /\ PopCurrent(CommonList)
    /\ UNCHANGED <<next_events, last_sl_tx, ue_db, slot, run, n_swaps, n_events>>
    /\ UNCHANGED others_e

\* log_invalid_cc: the event names a cell that does not exist; it is discarded,
\* its callback does not run
RunCommonDropCell ==
    /\ run.pc = "common_drain"
    /\ current_events[CommonList] # <<>>
    /\ LET ev == Head(current_events[CommonList])
       IN  /\ ev.cell # NoCell /\ ~cell_exists(ev.cell)
           /\ ev_log' = Dropped(ev.id)
    /\ PopCurrent(CommonList)
    /\ UNCHANGED <<next_events, last_sl_tx, ue_db, slot, run, n_swaps, n_events>>
    /\ UNCHANGED others_e

\* the carriers of the UE are not synchronized: the event is put back for the next
\* slot
RunCommonRequeue ==
    /\ run.pc = "common_drain"
    /\ current_events[CommonList] # <<>>
    /\ LET ev == Head(current_events[CommonList])
       IN  /\ event_requires_sync(ev) /\ ~Synchronized(ev.ue)
           /\ ev_log' = Requeued(ev.id)
           /\ next_events' = [next_events EXCEPT ![CommonList] = Append(@, ev)]
    /\ PopCurrent(CommonList)
    /\ UNCHANGED <<last_sl_tx, ue_db, slot, run, n_swaps, n_events>>
    /\ UNCHANGED others_e

\* run(sl_tx, cell_index) returns
RunDone ==
    /\ run.pc = "common_drain"
    /\ current_events[CommonList] = <<>>
    /\ run' = [cell |-> 0, pc |-> "idle"]
    /\ slot' = Returned(run.cell)
    /\ UNCHANGED <<next_events, current_events, last_sl_tx, ue_db, n_swaps, ev_log, n_events>>
    /\ UNCHANGED others_e

\* every started cell has been run for the slot: the driver moves to the next slot
SlotAdvance ==
    /\ run.pc = "idle"
    /\ slot.done = slot.started
    /\ slot.n < MaxSlot
    /\ slot' = [slot EXCEPT !.sl_tx = SlotNext(@), !.n = @ + 1, !.done = {}]
    /\ UNCHANGED <<next_events, current_events, last_sl_tx, ue_db, run, n_swaps, ev_log,
                   n_events>>
    /\ UNCHANGED others_e

\* the slot indications of another cell start
StartCell(cell) ==
    /\ run.pc = "idle"
    /\ cell \notin slot.started
    /\ slot' = [slot EXCEPT !.started = @ \cup {cell}]
    /\ UNCHANGED <<next_events, current_events, last_sl_tx, ue_db, run, n_swaps, ev_log,
                   n_events>>
    /\ UNCHANGED others_e

\* a UE is removed from the scheduler
RemoveUe(ue) ==
    /\ run.pc = "idle"
    /\ ue \in ue_db
    /\ ue_db' = ue_db \ {ue}
    /\ UNCHANGED <<next_events, current_events, last_sl_tx, slot, run, n_swaps, ev_log,
                   n_events>>
    /\ UNCHANGED others_e

(***************************************************************************)
(* The run calls of the cells on their own threads: one execution context  *)
(* drives each cell, so run(sl_tx, c) of one cell overlaps run(sl_tx, c')  *)
(* of another.  The buffer swaps are the critical sections of the lists'   *)
(* mutexes, one step each; the drain of a current buffer is outside the    *)
(* mutex, one step per event.                                              *)
(***************************************************************************)

\* the swap of the common list whatever last_sl_tx is
ThrCommonSwap_always(cell) ==
    /\ thr[cell] = "cell_drain"
    /\ current_events[cell] = <<>>
    /\ SwapBuffers(CommonList)
    /\ last_sl_tx' = slot.sl_tx
    /\ slot' = [slot EXCEPT !.list_slot[CommonList] = slot.sl_tx]
    /\ thr' = [thr EXCEPT ![cell] = "common_drain"]
    /\ UNCHANGED <<ue_db, ev_log, n_events>>
    /\ UNCHANGED others_t

\* run(sl_tx, cell) starts on the cell's thread: the cell's buffers are swapped
ThrCellSwap(cell) ==
    /\ thr[cell] = "idle"
    /\ cell \in slot.started \ slot.done
    /\ SwapBuffers(cell)
    /\ slot' = [slot EXCEPT !.list_slot[cell] = slot.sl_tx]
    /\ thr' = [thr EXCEPT ![cell] = "cell_drain"]
    /\ UNCHANGED <<last_sl_tx, ue_db, ev_log, n_events>>
    /\ UNCHANGED others_t

\* drain of the cell's current buffer: the callback runs if the UE exists, else
\* the event is discarded
ThrCellDrain(cell) ==
    /\ thr[cell] = "cell_drain"
    /\ current_events[cell] # <<>>
    /\ LET ev == Head(current_events[cell])
       IN  ev_log' = IF ev.ue = NoUe \/ ev.ue \in ue_db THEN Executed(ev.id)
                                                        ELSE Dropped(ev.id)
    /\ PopCurrent(cell)
    /\ UNCHANGED <<next_events, last_sl_tx, ue_db, slot, n_swaps, n_events, thr>>
    /\ UNCHANGED others_t

\* the cell's buffer is drained: under the mutex of the common list, the first
\* call of the slot swaps the common list, a later one returns
ThrCommonSwap(cell) ==
    /\ thr[cell] = "cell_drain"
    /\ current_events[cell] = <<>>
    /\ IF last_sl_tx # slot.sl_tx
       THEN /\ SwapBuffers(CommonList)
            /\ last_sl_tx' = slot.sl_tx
            /\ slot' = [slot EXCEPT !.list_slot[CommonList] = slot.sl_tx]
            /\ thr' = [thr EXCEPT ![cell] = "common_drain"]
       ELSE /\ thr' = [thr EXCEPT ![cell] = "idle"]
            /\ slot' = Returned(cell)
            /\ UNCHANGED <<next_events, current_events, n_swaps, last_sl_tx>>
    /\ UNCHANGED <<ue_db, ev_log, n_events>>
    /\ UNCHANGED others_t

\* drain of the common list by the thread that swapped it: the event is discarded,
\* put back or executed
ThrCommonDrain(cell) ==
    /\ thr[cell] = "common_drain"
    /\ current_events[CommonList] # <<>>
    /\ LET ev == Head(current_events[CommonList])
           gone == ev.ue # NoUe /\ ev.ue \notin ue_db
           no_cell == ev.cell # NoCell /\ ~cell_exists(ev.cell)
           put_back == event_requires_sync(ev) /\ ~Synchronized(ev.ue)
       IN  /\ ev_log' = IF gone \/ no_cell THEN Dropped(ev.id)
                         ELSE IF put_back THEN Requeued(ev.id)
                         ELSE Executed(ev.id)
           /\ next_events' = IF ~gone /\ ~no_cell /\ put_back
                                THEN [next_events EXCEPT ![CommonList] = Append(@, ev)]
                                ELSE next_events
    /\ PopCurrent(CommonList)
    /\ UNCHANGED <<last_sl_tx, ue_db, slot, n_swaps, n_events, thr>>
    /\ UNCHANGED others_t

\* run(sl_tx, cell) returns on the thread that drained the common list
ThrDone(cell) ==
    /\ thr[cell] = "common_drain"
    /\ current_events[CommonList] = <<>>
    /\ thr' = [thr EXCEPT ![cell] = "idle"]
    /\ slot' = Returned(cell)
    /\ UNCHANGED <<next_events, current_events, last_sl_tx, ue_db, n_swaps, ev_log, n_events>>
    /\ UNCHANGED others_t

ThreadsIdle == \A c \in Cells : thr[c] = "idle"

ThreadNext ==
    \/ \E u \in Ues : \E c \in CellsOf(u) : handle_sr_indication(c, u)
    \/ \E c \in CfgCells : handle_cell_configuration_request(c)
    \/ \E c \in Cells : ThrCellSwap(c)
    \/ \E c \in Cells : ThrCellDrain(c)
    \/ \E c \in Cells : ThrCommonSwap(c)
    \/ \E c \in Cells : ThrCommonDrain(c)
    \/ \E c \in Cells : ThrDone(c)
    \/ SlotAdvance
    \/ \E c \in Cells : StartCell(c)
    \/ \E u \in Ues : ThreadsIdle /\ RemoveUe(u)

(***************************************************************************)
(* The mutexes of the event lists made explicit: a producer call and a run *)
(* call lock the list's mutex, append or swap, and unlock.  The drain of a *)
(* current buffer takes no mutex.                                          *)
(***************************************************************************)

\* the swap that keeps the mutex of the cell's list locked for the drain
MtxRunSwap_hold(cell) ==
    /\ thr[cell] = "cell_lock"
    /\ SwapBuffers(cell)
    /\ slot' = [slot EXCEPT !.list_slot[cell] = slot.sl_tx]
    /\ thr' = [thr EXCEPT ![cell] = "cell_drain"]
    /\ UNCHANGED <<last_sl_tx, ue_db, ev_log, n_events, mtx>>
    /\ UNCHANGED others_m

\* a producer thread calls handle_sr_indication
MtxCall(cell, ue) ==
    /\ mtx.prod.list = -1
    /\ n_events < MaxEvents
    /\ mtx' = [mtx EXCEPT !.prod = [list |-> ListOf(cell, ue), ue |-> ue, locked |-> FALSE]]
    /\ UNCHANGED <<evars_m, thr>>
    /\ UNCHANGED others_m

\* the producer locks the mutex of the list; it waits while the mutex is held
MtxLock ==
    /\ mtx.prod.list # -1
    /\ ~mtx.prod.locked
    /\ mtx.held[mtx.prod.list] = Free
    /\ mtx' = [mtx EXCEPT !.held[mtx.prod.list] = Producer, !.prod.locked = TRUE]
    /\ UNCHANGED <<evars_m, thr>>
    /\ UNCHANGED others_m

\* the event appended to the next buffer of the list
Appended(list, ue) ==
    /\ n_events' = n_events + 1
    /\ next_events' = [next_events EXCEPT ![list] =
                          Append(@, [id |-> n_events + 1, ue |-> ue, cell |-> NoCell])]

Logged(log, list) ==
    [log EXCEPT ![n_events + 1] =
        [NotEnqueued EXCEPT !.list = list, !.enq_swaps = n_swaps[list],
                            !.enq_slot = slot.list_slot[list],
                            !.enq_busy = Draining(list)]]

\* the producer appends its event, unlocks the mutex and returns
MtxAppend ==
    /\ mtx.prod.locked
    /\ Appended(mtx.prod.list, mtx.prod.ue)
    /\ ev_log' = Logged(ev_log, mtx.prod.list)
    /\ mtx' = [mtx EXCEPT !.held[mtx.prod.list] = Free, !.prod = NoProducer]
    /\ UNCHANGED <<current_events, last_sl_tx, ue_db, slot, n_swaps, thr>>
    /\ UNCHANGED others_m

\* run(sl_tx, cell) starts on the cell's thread and locks the mutex of the cell's list
MtxRunLock(cell) ==
    /\ thr[cell] = "idle"
    /\ cell \in slot.started \ slot.done
    /\ mtx.held[cell] = Free
    /\ mtx' = [mtx EXCEPT !.held[cell] = cell]
    /\ thr' = [thr EXCEPT ![cell] = "cell_lock"]
    /\ UNCHANGED evars_m
    /\ UNCHANGED others_m

\* the cell's buffers are swapped and the mutex is unlocked
MtxRunSwap(cell) ==
    /\ thr[cell] = "cell_lock"
    /\ SwapBuffers(cell)
    /\ slot' = [slot EXCEPT !.list_slot[cell] = slot.sl_tx]
    /\ thr' = [thr EXCEPT ![cell] = "cell_drain"]
    /\ mtx' = [mtx EXCEPT !.held[cell] = Free]
    /\ UNCHANGED <<last_sl_tx, ue_db, ev_log, n_events>>
    /\ UNCHANGED others_m

\* the callback of the event at the head of the drain runs and calls
\* handle_sr_indication for its UE: it locks the mutex of that list, appends and
\* unlocks
MtxCallbackEnqueue(cell) ==
    /\ thr[cell] \in {"cell_drain", "common_drain"}
    /\ n_events < MaxEvents
    /\ LET list == IF thr[cell] = "cell_drain" THEN cell ELSE CommonList
       IN  /\ current_events[list] # <<>>
           /\ LET ev == Head(current_events[list])
                  target == ListOf(cell, ev.ue)
              IN  /\ ev.ue \in ue_db
                  /\ event_requires_sync(ev) => Synchronized(ev.ue)
                  /\ mtx.held[target] = Free
                  /\ Appended(target, ev.ue)
                  /\ ev_log' = Logged(Executed(ev.id), target)
           /\ PopCurrent(list)
    /\ UNCHANGED <<last_sl_tx, ue_db, slot, n_swaps, thr, mtx>>
    /\ UNCHANGED others_m

\* the cell's buffer is drained: the thread locks the mutex of the common list
MtxCommonLock(cell) ==
    /\ thr[cell] = "cell_drain"
    /\ current_events[cell] = <<>>
    /\ mtx.held[CommonList] = Free
    /\ mtx' = [mtx EXCEPT !.held[CommonList] = cell]
    /\ thr' = [thr EXCEPT ![cell] = "common_lock"]
    /\ UNCHANGED evars_m
    /\ UNCHANGED others_m

\* under the mutex, the first call of the slot swaps the common list, a later one
\* returns; the mutex is unlocked
MtxCommonSwap(cell) ==
    /\ thr[cell] = "common_lock"
    /\ mtx' = [mtx EXCEPT !.held[CommonList] = Free]
    /\ IF last_sl_tx # slot.sl_tx
       THEN /\ SwapBuffers(CommonList)
            /\ last_sl_tx' = slot.sl_tx
            /\ slot' = [slot EXCEPT !.list_slot[CommonList] = slot.sl_tx]
            /\ thr' = [thr EXCEPT ![cell] = "common_drain"]
       ELSE /\ thr' = [thr EXCEPT ![cell] = "idle"]
            /\ slot' = Returned(cell)
            /\ UNCHANGED <<next_events, current_events, n_swaps, last_sl_tx>>
    /\ UNCHANGED <<ue_db, ev_log, n_events>>
    /\ UNCHANGED others_m

\* the steps of the producer thread
MtxProducerNext ==
    \/ \E u \in Ues : \E c \in CellsOf(u) : MtxCall(c, u)
    \/ MtxLock
    \/ MtxAppend

\* the steps of the run threads and of the slot driver
MtxRunNext ==
    \/ \E c \in Cells : MtxRunLock(c)
    \/ \E c \in Cells : MtxRunSwap(c)
    \/ \E c \in Cells : ThrCellDrain(c)
    \/ \E c \in Cells : MtxCallbackEnqueue(c)
    \/ \E c \in Cells : MtxCommonLock(c)
    \/ \E c \in Cells : MtxCommonSwap(c)
    \/ \E c \in Cells : ThrCommonDrain(c)
    \/ \E c \in Cells : ThrDone(c)
    \/ SlotAdvance
    \/ \E c \in Cells : StartCell(c)

MtxNext == MtxProducerNext \/ MtxRunNext

EventNext ==
    \/ \E u \in Ues : \E c \in CellsOf(u) : handle_sr_indication(c, u)
    \/ \E u \in Ues : \E c \in CellsOf(u) : handle_ul_bsr(c, u)
    \/ \E c \in Cells : handle_rach_indication(c)
    \/ \E c \in CfgCells : handle_cell_configuration_request(c)
    \/ \E c \in Cells : RunCellSwap(c)
    \/ RunCellExecute
    \/ RunCellDrop
    \/ RunCommonSwap
    \/ RunCommonExecute
    \/ RunCommonDrop
    \/ RunCommonDropCell
    \/ RunCommonRequeue
    \/ RunDone
    \/ SlotAdvance
    \/ \E c \in Cells : StartCell(c)
    \/ \E u \in Ues : RemoveUe(u)

(***************************************************************************)
(* harq_entity: the DL and the UL HARQ processes of one UE.  The callers    *)
(* reach a process through the entity; new_slot advances all of them and   *)
(* logs the discards.                                                      *)
(***************************************************************************)

\* number of HARQ processes per direction (nof_harq_procs)
NofHarqProcs == 1

Pids == 0..(NofHarqProcs - 1)

Dirs == {"dl", "ul"}

\* slots the calls on the entity use: every transmission expects its ack in slot 1
EntSlots == {0, 1}

EntStart ==
    ent = [slot_rx |-> -1,
           dl |-> [i \in 1..NofHarqProcs |-> HarqInit],
           ul |-> [i \in 1..NofHarqProcs |-> HarqInit],
           log |-> <<>>]

\* a line for every process that is empty after the call
DiscardLines_all_empty(dir, before, after) ==
    LET idx == SelectSeq([i \in 1..Len(before) |-> i], LAMBDA i : after[i].state = "empty")
    IN  [k \in 1..Len(idx) |->
            [dir |-> dir, pid |-> idx[k] - 1, max_retx |-> after[idx[k]].max_retx]]

\* the lines logged by the loop over the processes of one direction: one for each
\* process that was not empty before its new_slot and is empty after it
DiscardLines(dir, before, after) ==
    LET idx == SelectSeq([i \in 1..Len(before) |-> i],
                         LAMBDA i : before[i].state # "empty" /\ after[i].state = "empty")
    IN  [k \in 1..Len(idx) |->
            [dir |-> dir, pid |-> idx[k] - 1, max_retx |-> after[idx[k]].max_retx]]

\* harq_entity::new_slot
harq_entity_new_slot(e, slot_rx_) ==
    LET dl_after == [i \in 1..Len(e.dl) |-> new_slot(e.dl[i], slot_rx_)]
        ul_after == [i \in 1..Len(e.ul) |-> new_slot(e.ul[i], slot_rx_)]
    IN  [slot_rx |-> slot_rx_, dl |-> dl_after, ul |-> ul_after,
         log |-> DiscardLines("dl", e.dl, dl_after) \o DiscardLines("ul", e.ul, ul_after)]

EntityNewSlot(slot_rx_) ==
    /\ ent' = harq_entity_new_slot(ent, slot_rx_)
    /\ UNCHANGED <<hvars, evars, du, dci>>

\* a call on one process of the entity; it logs nothing
OnProc(dir, pid, p) == [ent EXCEPT ![dir][pid + 1] = p, !.log = <<>>]

\* every transport block of the entity may be retransmitted once
EntNewTx(dir, pid) ==
    /\ ent' = OnProc(dir, pid,
                     new_tx(ent[dir][pid + 1], 0, 1, Type1Grant(0, 1), U32(5), 1).h)
    /\ UNCHANGED <<hvars, evars, du, dci>>

EntAckInfo(dir, pid, ack) ==
    /\ ent' = OnProc(dir, pid, ack_info(ent[dir][pid + 1], ack).h)
    /\ UNCHANGED <<hvars, evars, du, dci>>

EntNewRetx(dir, pid) ==
    /\ ent[dir][pid + 1].n_rtx < ent[dir][pid + 1].max_retx
    /\ ent' = OnProc(dir, pid, new_retx(ent[dir][pid + 1], 0, 1).h)
    /\ UNCHANGED <<hvars, evars, du, dci>>

EntityNext ==
    \/ \E s \in EntSlots : EntityNewSlot(s)
    \/ \E d \in Dirs, pid \in Pids : EntNewTx(d, pid)
    \/ \E d \in Dirs, pid \in Pids, ack \in BOOLEAN : EntAckInfo(d, pid, ack)
    \/ \E d \in Dirs, pid \in Pids : EntNewRetx(d, pid)

(***************************************************************************)
(* du_configuration_manager (lib/cu_cp/du_processor): the configured DUs    *)
(* and their served cells, and the handlers through which the DUs are set  *)
(* up and updated.  A handler's ctxt points to the context of its DU in the *)
(* manager's map; it is kept here as the key of that context.              *)
(***************************************************************************)

\* gNB-DU-Ids of the requests
DuIds == {1, 2}

\* NR cell global ids of the requests
Cgis == {1, 2}

\* the handlers created with create_du_handler
HandlerIds == {1, 2}

\* a handler's ctxt when it is nullptr
NullCtxt == 0

\* largest number of cells of a DU
MAX_NOF_DU_CELLS == 2

\* cu_cp_du_served_cells_item: its CGI, whether it carries a TAC and the system
\* information, and whether its NCI matches the gNB-Id of the CU-CP
CellItem(cgi, tac, sys_info, nci_ok) ==
    [nr_cgi |-> cgi, has_tac |-> tac, has_sys_info |-> sys_info, nci_matches |-> nci_ok]

GoodItems == {CellItem(c, TRUE, TRUE, TRUE) : c \in Cgis}

BadItems ==
    {CellItem(1, FALSE, TRUE, TRUE), CellItem(1, TRUE, FALSE, TRUE), CellItem(1, TRUE, TRUE, FALSE)}

SeqsUpTo(S, n) == UNION {[1..k -> S] : k \in 0..n}

\* the served cell lists of the setup requests: complete items, as many as a DU may
\* have, lists one longer than that, and lists that end with an incomplete item
CellLists ==
    SeqsUpTo(GoodItems, MAX_NOF_DU_CELLS)
        \cup {[i \in 1..(MAX_NOF_DU_CELLS + 1) |-> CellItem(c, TRUE, TRUE, TRUE)] : c \in Cgis}
        \cup {Append(l, b) : l \in SeqsUpTo(GoodItems, 1), b \in BadItems}

\* du_setup_request
SetupRequests == {[gnb_du_id |-> d, gnb_du_served_cells_list |-> l] : d \in DuIds, l \in CellLists}

\* du_config_update_request
UpdateRequests ==
    {[gnb_du_id |-> d, served_cells_to_rem |-> r, served_cells_to_add |-> a] :
        d \in DuIds, r \in SeqsUpTo(Cgis, 1), a \in SeqsUpTo(GoodItems, 1)}

\* error_type / expected holding a value
Accepted == [ok |-> TRUE, cause |-> "none", text |-> "none"]

\* make_unexpected(du_setup_result::rejected{cause, text})
Rejected(cause, text) == [ok |-> FALSE, cause |-> cause, text |-> text]

NoDu == [up |-> FALSE, served_cells |-> <<>>]

DuStart ==
    du = [dus |-> [d \in DuIds |-> NoDu],
          ctxt |-> [hd \in HandlerIds |-> NullCtxt],
          res |-> Accepted,
          aborted |-> FALSE]

\* validate_cell_config
validate_cell_config(served_cell) ==
    IF ~served_cell.has_tac
    THEN Rejected("msg_not_compatible_with_receiver_state", "Missing TAC for cell")
    ELSE IF ~served_cell.has_sys_info
    THEN Rejected("semantic_error", "Missing system information for cell")
    ELSE Accepted

\* du_configuration_manager::validate_cell_config_request
validate_cell_config_request(cell_req) ==
    IF ~validate_cell_config(cell_req).ok THEN validate_cell_config(cell_req)
    ELSE IF ~cell_req.nci_matches
    THEN Rejected("msg_not_compatible_with_receiver_state", "NCI does not match gNB-Id")
    ELSE Accepted

\* the result of the first element of the sequence that is rejected
FirstRejected(results) ==
    LET bad == {i \in DOMAIN results : ~results[i].ok}
    IN  IF bad = {} THEN Accepted ELSE results[CHOOSE i \in bad : \A j \in bad : i <= j]

\* the DUs the manager holds
ConfiguredDus(dus) == {d \in DuIds : dus[d].up}

\* the CGIs of a list of served cells
CgisOf(served_cells) == {served_cells[i].cgi : i \in DOMAIN served_cells}

\* the CGIs of the cells of a request
RequestedCgis(cells) == {cells[i].nr_cgi : i \in DOMAIN cells}

\* the collision loop over the configured DUs, in the order of their ids
Collision(dus, req) ==
    LET hit == {d \in ConfiguredDus(dus) :
                   \/ d = req.gnb_du_id
                   \/ CgisOf(dus[d].served_cells)
                          \cap RequestedCgis(req.gnb_du_served_cells_list) # {}}
    IN  IF hit = {} THEN Accepted
        ELSE IF (CHOOSE d \in hit : \A e \in hit : d <= e) = req.gnb_du_id
        THEN Rejected("msg_not_compatible_with_receiver_state", "Duplicate DU ID")
        ELSE Rejected("msg_not_compatible_with_receiver_state", "Duplicate served cell CGI")

\* validation that does not compare the CGIs with those of the other DUs
validate_new_du_config_ids_only(dus, req) ==
    IF Len(req.gnb_du_served_cells_list) > MAX_NOF_DU_CELLS
    THEN Rejected("msg_not_compatible_with_receiver_state", "Too many served cells")
    ELSE IF dus[req.gnb_du_id].up
    THEN Rejected("msg_not_compatible_with_receiver_state", "Duplicate DU ID")
    ELSE Accepted

\* du_configuration_manager::validate_new_du_config
validate_new_du_config(dus, req) ==
    IF Len(req.gnb_du_served_cells_list) > MAX_NOF_DU_CELLS
    THEN Rejected("msg_not_compatible_with_receiver_state", "Too many served cells")
    ELSE LET cells == req.gnb_du_served_cells_list
             each  == [i \in DOMAIN cells |-> validate_cell_config_request(cells[i])]
         IN  IF ~FirstRejected(each).ok THEN FirstRejected(each)
             ELSE Collision(dus, req)

\* create_du_cell_config
create_du_cell_config(cell_idx, f1ap_cell_cfg) ==
    [cell_index |-> cell_idx, cgi |-> f1ap_cell_cfg.nr_cgi]

\* du_configuration_manager::add_du_config: the result, the map, and the context
\* the returned pointer points to
add_du_config(dus, req) ==
    LET result == validate_new_du_config(dus, req)
        cells  == req.gnb_du_served_cells_list
    IN  IF ~result.ok THEN [result |-> result, dus |-> dus, value |-> NullCtxt]
        ELSE [result |-> Accepted,
              dus    |-> [dus EXCEPT ![req.gnb_du_id] =
                             [up |-> TRUE,
                              served_cells |->
                                  [i \in DOMAIN cells |-> create_du_cell_config(i - 1, cells[i])]]],
              value  |-> req.gnb_du_id]

\* du_configuration_handler_impl::handle_new_du_config
handle_new_du_config(hd, req) ==
    /\ ~du.aborted
    /\ IF du.ctxt[hd] # NullCtxt
       THEN du' = [du EXCEPT !.res = Rejected("msg_not_compatible_with_receiver_state",
                                                 "DU already configured")]
       ELSE LET ret == add_du_config(du.dus, req)
            IN  du' = [du EXCEPT !.dus = ret.dus,
                                 !.ctxt[hd] = IF ret.result.ok THEN ret.value ELSE @,
                                 !.res = ret.result]
    /\ UNCHANGED <<hvars, evars, ent, dci>>

\* du_configuration_manager::validate_du_config_update
validate_du_config_update(req) == Accepted

\* std::find_if and erase: the first cell with the CGI is removed, if there is one
EraseCgi(served_cells, cgi) ==
    LET at == {i \in DOMAIN served_cells : served_cells[i].cgi = cgi}
    IN  IF at = {} THEN served_cells
        ELSE LET first == CHOOSE i \in at : \A j \in at : i <= j
             IN  [i \in 1..(Len(served_cells) - 1) |->
                     IF i < first THEN served_cells[i] ELSE served_cells[i + 1]]

RECURSIVE RemoveCells(_, _)
RemoveCells(served_cells, to_rem) ==
    IF to_rem = <<>> THEN served_cells
    ELSE RemoveCells(EraseCgi(served_cells, Head(to_rem)), Tail(to_rem))

\* every cell index below MAX_NOF_DU_CELLS, used by a served cell or not
FreeIndices_ignoring_used(served_cells) ==
    0..(MAX_NOF_DU_CELLS - 1)

\* the cell indices below MAX_NOF_DU_CELLS that no served cell uses
FreeIndices(served_cells) ==
    {i \in 0..(MAX_NOF_DU_CELLS - 1) : \A k \in DOMAIN served_cells : served_cells[k].cell_index # i}

\* the loop that adds the new cells; asserted is set when no cell index is free
RECURSIVE AddCells(_, _)
AddCells(served_cells, to_add) ==
    IF to_add = <<>> THEN [served_cells |-> served_cells, asserted |-> FALSE]
    ELSE IF FreeIndices(served_cells) = {}
    THEN [served_cells |-> served_cells, asserted |-> TRUE]
    ELSE LET idx == CHOOSE i \in FreeIndices(served_cells) :
                        \A j \in FreeIndices(served_cells) : i <= j
         IN  AddCells(Append(served_cells, create_du_cell_config(idx, Head(to_add))),
                      Tail(to_add))

\* du_configuration_manager::handle_du_config_update: what the expected holds (an
\* error, or a pointer that may be nullptr), the map, and whether the assertion on
\* the cell index failed
manager_handle_du_config_update(dus, current_ctxt, req) ==
    IF current_ctxt # req.gnb_du_id
    THEN [has_value |-> TRUE, value |-> NullCtxt, dus |-> dus, asserted |-> FALSE]
    ELSE IF ~dus[current_ctxt].up
    THEN [has_value |-> TRUE, value |-> NullCtxt, dus |-> dus, asserted |-> FALSE]
    ELSE IF ~validate_du_config_update(req).ok
    THEN [has_value |-> TRUE, value |-> NullCtxt, dus |-> dus, asserted |-> FALSE]
    ELSE LET kept  == RemoveCells(dus[current_ctxt].served_cells, req.served_cells_to_rem)
             added == AddCells(kept, req.served_cells_to_add)
         IN  [has_value |-> TRUE, value |-> current_ctxt,
              dus |-> [dus EXCEPT ![current_ctxt].served_cells = added.served_cells],
              asserted |-> added.asserted]

\* du_configuration_handler_impl::handle_du_config_update
handle_du_config_update(hd, req) ==
    /\ ~du.aborted
    /\ IF du.ctxt[hd] = NullCtxt
       THEN du' = [du EXCEPT !.res = Rejected("msg_not_compatible_with_receiver_state",
                                                 "DU with same gNB-DU-Id was not setup")]
       ELSE LET ret == manager_handle_du_config_update(du.dus, du.ctxt[hd], req)
            IN  IF ret.asserted
                THEN du' = [du EXCEPT !.dus = ret.dus, !.aborted = TRUE,
                                      !.res = Accepted]
                ELSE du' = [du EXCEPT !.dus = ret.dus,
                                      !.ctxt[hd] = ret.value,
                                      !.res = Accepted]
    /\ UNCHANGED <<hvars, evars, ent, dci>>

\* du_configuration_manager::rem_du
rem_du(dus, du_id) == IF ~dus[du_id].up THEN dus ELSE [dus EXCEPT ![du_id] = NoDu]

\* the handler is destroyed (and a new one is created in its place)
DestroyHandler(hd) ==
    /\ ~du.aborted
    /\ du' = [du EXCEPT !.dus = IF du.ctxt[hd] # NullCtxt THEN rem_du(du.dus, du.ctxt[hd]) ELSE @,
                        !.ctxt[hd] = NullCtxt,
                        !.res = Accepted]
    /\ UNCHANGED <<hvars, evars, ent, dci>>

DuNext ==
    \/ \E hd \in HandlerIds, req \in SetupRequests : handle_new_du_config(hd, req)
    \/ \E hd \in HandlerIds, req \in UpdateRequests : handle_du_config_update(hd, req)
    \/ \E hd \in HandlerIds : DestroyHandler(hd)

(***************************************************************************)
(* dl_harq_proc and ul_harq_proc: a harq_proc (h) with a process id, whose  *)
(* new_tx and new_retx fill the DCI of the caller when the call on the     *)
(* harq_proc succeeds.  The caller hands in the same DCI object each time, *)
(* with format 1_0.  (dl_harq_proc::new_tx also clears the pdu, which is   *)
(* no part of this model.)                                                 *)
(***************************************************************************)

\* the process ids given to the constructors
WrapPids == {0, 7}

\* the pid of a DCI that was never filled
NoPid == -1

\* retransmissions of one transport block that the driver asks for
WrapRtxCap == 5

\* the slots of the transmissions, and the distances to their ack slots
WrapSlots == {0, 1}

WrapAckDelays == {1, 2}

\* the slots of the slot indications
WrapRxSlots == 0..3

\* a DCI before it is filled
UnsetDci == [pid |-> NoPid, ndi |-> FALSE, mcs |-> U32(0), rv |-> 0, harq_feedback |-> 0]

DciStart == dci = [kind |-> "none", pid |-> NoPid, out |-> UnsetDci]

\* slot_point difference
SlotDiff(a, b) ==
    LET d == (a - b + NofSlots) % NofSlots
    IN  IF d >= NofSlots \div 2 THEN d - NofSlots ELSE d

\* the redundancy versions of the successive transmissions
rv_idx == <<0, 2, 3, 1>>

\* fill_dci that takes the number of retransmissions for the redundancy version
dl_fill_dci_rv_counted(p, pid, d) ==
    [d EXCEPT !.pid = pid, !.ndi = p.ndi, !.mcs = p.mcs, !.rv = p.n_rtx % 4,
              !.harq_feedback = SlotDiff(p.slot_ack, p.slot_tx) - 1]

\* dl_harq_proc::fill_dci, for a DCI of format 1_0
dl_fill_dci(p, pid, d) ==
    [d EXCEPT !.pid = pid, !.ndi = p.ndi, !.mcs = p.mcs, !.rv = rv_idx[(p.n_rtx % 4) + 1],
              !.harq_feedback = SlotDiff(p.slot_ack, p.slot_tx) - 1]

\* ul_harq_proc::fill_dci
ul_fill_dci(p, pid, d) ==
    [d EXCEPT !.pid = pid, !.ndi = p.ndi, !.mcs = p.mcs, !.rv = rv_idx[(p.n_rtx % 4) + 1]]

\* dl_harq_proc::dl_harq_proc and ul_harq_proc::ul_harq_proc
Construct(kind, id_) ==
    /\ dci.kind = "none"
    /\ dci' = [dci EXCEPT !.kind = kind, !.pid = id_]
    /\ UNCHANGED <<hvars, evars, ent, du>>

\* the process and the DCI after a call of a wrapper: r is what the call on the
\* harq_proc returned, filled the DCI if that call succeeded
Wrapped(name, r, filled) ==
    /\ h' = r.h
    /\ op' = BoolCall(name, h, r)
    /\ dci' = [dci EXCEPT !.out = IF r.ret THEN filled ELSE @]
    /\ UNCHANGED scen
    /\ UNCHANGED <<evars, ent, du>>

\* dl_harq_proc::new_tx
DlNewTx(slot_tx_, slot_ack_, grant, mcs_, max_retx_) ==
    /\ dci.kind = "dl"
    /\ LET r == new_tx(h, slot_tx_, slot_ack_, grant, mcs_, max_retx_)
       IN  Wrapped("new_tx", r, dl_fill_dci(r.h, dci.pid, dci.out))

\* dl_harq_proc::new_retx
DlNewRetx(slot_tx_, slot_ack_, grant) ==
    /\ dci.kind = "dl"
    /\ h.n_rtx < WrapRtxCap
    /\ LET r == new_retx_grant(h, slot_tx_, slot_ack_, grant)
       IN  Wrapped("new_retx", r, dl_fill_dci(r.h, dci.pid, dci.out))

\* ul_harq_proc::new_tx that expects the acknowledgement one slot after the
\* transmission
UlNewTx_ack_later(slot_tx_, grant, mcs_, max_retx_) ==
    /\ dci.kind = "ul"
    /\ LET r == new_tx(h, slot_tx_, slot_tx_ + 1, grant, mcs_, max_retx_)
       IN  Wrapped("new_tx", r, ul_fill_dci(r.h, dci.pid, dci.out))

\* ul_harq_proc::new_tx
UlNewTx(slot_tx_, grant, mcs_, max_retx_) ==
    /\ dci.kind = "ul"
    /\ LET r == new_tx(h, slot_tx_, slot_tx_, grant, mcs_, max_retx_)
       IN  Wrapped("new_tx", r, ul_fill_dci(r.h, dci.pid, dci.out))

\* ul_harq_proc::new_retx
UlNewRetx(slot_tx_, grant) ==
    /\ dci.kind = "ul"
    /\ h.n_rtx < WrapRtxCap
    /\ LET r == new_retx_grant(h, slot_tx_, slot_tx_, grant)
       IN  Wrapped("new_retx", r, ul_fill_dci(r.h, dci.pid, dci.out))

\* the calls on a dl_harq_proc or a ul_harq_proc; every transport block may be
\* retransmitted once before new_slot discards it
WrapNext ==
    \/ \E kind \in Dirs, id_ \in WrapPids : Construct(kind, id_)
    \/ \E s \in WrapSlots, d \in WrapAckDelays, g \in Grants, m \in McsVals :
          DlNewTx(s, s + d, g, m, 1)
    \/ \E s \in WrapSlots, d \in WrapAckDelays, g \in Grants : DlNewRetx(s, s + d, g)
    \/ \E s \in WrapSlots, g \in Grants, m \in McsVals : UlNewTx(s, g, m, 1)
    \/ \E s \in WrapSlots, g \in Grants : UlNewRetx(s, g)
    \/ \E slot_rx \in WrapRxSlots : dci.kind # "none" /\ NewSlot(slot_rx)
    \/ \E ack \in BOOLEAN : dci.kind # "none" /\ AckInfo(ack)

(***************************************************************************)
(* The slot processing of one cell (cell scheduling manager): per slot it  *)
(* applies the pending events, advances the HARQ entity of the UE, collects *)
(* the processes with a pending retransmission, invokes the policy for the *)
(* downlink and then for the uplink, and publishes the result.  The events *)
(* are the HARQ feedback for the processes of ent.                         *)
(***************************************************************************)

\* the last slot the cell is processed for
PipeLastSlot == 1

\* max_retx of the transmissions of the policy
PipeRetxVals == {0, 1}

PipeSteps == <<"events", "new_slot", "collect", "dl_sched", "ul_sched", "publish">>

PipeStart ==
    pipe = [pc |-> "events", sl |-> 0, next |-> <<>>, applied |-> <<>>,
            before |-> [dl |-> <<>>, ul |-> <<>>],
            dl_list |-> {}, ul_list |-> {}, res |-> -1, order |-> <<>>]

\* the step of the slot processing is done
Stepped(p, to) == [p EXCEPT !.pc = to, !.order = Append(@, p.pc)]

\* a producer enqueues the HARQ feedback of a process for the next slot, one event
\* per slot
PipeFeedback(dir, pid, ack) ==
    /\ pipe.next = <<>>
    /\ pipe' = [pipe EXCEPT !.next = Append(@, [dir |-> dir, pid |-> pid, ack |-> ack])]
    /\ UNCHANGED ent
    /\ UNCHANGED others_p

\* the callbacks of the events, in their order: ack_info on the process
RECURSIVE ApplyFeedback(_, _)
ApplyFeedback(e, evs) ==
    IF evs = <<>> THEN e
    ELSE LET ev == Head(evs)
         IN  ApplyFeedback([e EXCEPT ![ev.dir][ev.pid + 1] = ack_info(@, ev.ack).h],
                           Tail(evs))

\* the pids of the processes of one direction with a retransmission pending
PendingRetx(procs) == {pid \in Pids : procs[pid + 1].state = "pending_retx"}

\* the lists are collected from the processes as they were before the events
PipeCollect_stale ==
    /\ pipe.pc = "collect"
    /\ pipe' = [Stepped(pipe, "dl_sched") EXCEPT !.dl_list = PendingRetx(pipe.before.dl),
                                                 !.ul_list = PendingRetx(pipe.before.ul)]
    /\ UNCHANGED ent
    /\ UNCHANGED others_p

\* (a) the pending events of the cell are applied
PipeApplyEvents ==
    /\ pipe.pc = "events"
    /\ ent' = [ApplyFeedback(ent, pipe.next) EXCEPT !.log = <<>>]
    /\ pipe' = [Stepped(pipe, "new_slot") EXCEPT !.next = <<>>, !.applied = pipe.next,
                                                 !.before = [dl |-> ent.dl, ul |-> ent.ul]]
    /\ UNCHANGED others_p

\* (b) the HARQ entity of the UE is advanced
PipeNewSlot ==
    /\ pipe.pc = "new_slot"
    /\ ent' = harq_entity_new_slot(ent, pipe.sl)
    /\ pipe' = Stepped(pipe, "collect")
    /\ UNCHANGED others_p

\* (c) the processes in pending_retx are collected, per direction
PipeCollect ==
    /\ pipe.pc = "collect"
    /\ pipe' = [Stepped(pipe, "dl_sched") EXCEPT !.dl_list = PendingRetx(ent.dl),
                                                 !.ul_list = PendingRetx(ent.ul)]
    /\ UNCHANGED ent
    /\ UNCHANGED others_p

\* what a policy does with the processes of one direction: nothing, one
\* retransmission from the list it was given, or a new transmission on an empty
\* process
PolicyChoices(procs, list, slot_tx_, slot_ack_) ==
    {procs}
    \cup {[procs EXCEPT ![pid + 1] = new_retx(@, slot_tx_, slot_ack_).h] : pid \in list}
    \cup {[procs EXCEPT ![pid + 1] =
               new_tx(@, slot_tx_, slot_ack_, Type1Grant(0, 1), U32(5), r).h] :
           pid \in {q \in Pids : procs[q + 1].state = "empty"}, r \in PipeRetxVals}

\* (d) dl_sched of the policy, with the list of the downlink
PipeDlSched ==
    /\ pipe.pc = "dl_sched"
    /\ \E procs \in PolicyChoices(ent.dl, pipe.dl_list, pipe.sl, pipe.sl + 1) :
           ent' = [ent EXCEPT !.dl = procs, !.log = <<>>]
    /\ pipe' = Stepped(pipe, "ul_sched")
    /\ UNCHANGED others_p

\* (d) ul_sched of the policy, with the list of the uplink
PipeUlSched ==
    /\ pipe.pc = "ul_sched"
    /\ \E procs \in PolicyChoices(ent.ul, pipe.ul_list, pipe.sl, pipe.sl) :
           ent' = [ent EXCEPT !.ul = procs, !.log = <<>>]
    /\ pipe' = Stepped(pipe, "publish")
    /\ UNCHANGED others_p

\* (e) the result of the slot is published; the next slot indication follows
PipePublish ==
    /\ pipe.pc = "publish"
    /\ pipe.sl < PipeLastSlot
    /\ pipe' = [pipe EXCEPT !.pc = "events", !.order = <<>>, !.res = pipe.sl,
                            !.sl = pipe.sl + 1, !.applied = <<>>,
                            !.before = [dl |-> <<>>, ul |-> <<>>],
                            !.dl_list = {}, !.ul_list = {}]
    /\ UNCHANGED ent
    /\ UNCHANGED others_p

PipeNext ==
    \/ \E d \in Dirs, pid \in Pids, ack \in BOOLEAN : PipeFeedback(d, pid, ack)
    \/ PipeApplyEvents
    \/ PipeNewSlot
    \/ PipeCollect
    \/ PipeDlSched
    \/ PipeUlSched
    \/ PipePublish

(***************************************************************************)
(* f1u_local_connector: the CU bearers by their UL tunnel, the DU bearers  *)
(* by their DL tunnel.  A bearer holds a pointer to the receive handler of *)
(* a bearer of the other side: the tunnel of that bearer, NoTunnel when    *)
(* the pointer is null, Dangling once the bearer pointed to was erased     *)
(* from its map and so destroyed.  Every operation runs under map_mutex.   *)
(***************************************************************************)

UlTunnels == {1, 2}

DlTunnels == {1, 2}

NoTunnel == 0

Dangling == -1

\* no bearer with the tunnel
NoCuBearer == [up |-> FALSE, dl_tnl_info |-> NoTunnel, handler |-> NoTunnel]

NoDuBearer == [up |-> FALSE, ul_up_tnl_info |-> NoTunnel, handler |-> NoTunnel]

F1uStart ==
    f1u = [cu_map |-> [ul \in UlTunnels |-> NoCuBearer],
           du_map |-> [dl \in DlTunnels |-> NoDuBearer]]

\* f1u_gateway_du_bearer::attach_cu_handler and detach_cu_handler
attach_cu_handler(du_bearer, ul) == [du_bearer EXCEPT !.handler = ul]

detach_cu_handler(du_bearer) == [du_bearer EXCEPT !.handler = NoTunnel]

\* f1u_gateway_cu_bearer::attach_du_handler and detach_du_handler
attach_du_handler(cu_bearer, dl) == [cu_bearer EXCEPT !.handler = dl, !.dl_tnl_info = dl]

detach_du_handler(cu_bearer, dl) ==
    IF cu_bearer.dl_tnl_info = dl
    THEN [cu_bearer EXCEPT !.handler = NoTunnel, !.dl_tnl_info = NoTunnel]
    ELSE cu_bearer

\* the DU bearers once the CU bearer of the tunnel is destroyed: the pointers to
\* its receive handler dangle
CuDestroyed(du_map, ul) ==
    [dl \in DlTunnels |->
        IF du_map[dl].up /\ du_map[dl].handler = ul
        THEN [du_map[dl] EXCEPT !.handler = Dangling] ELSE du_map[dl]]

\* the CU bearers once the DU bearer of the tunnel is destroyed
DuDestroyed(cu_map, dl) ==
    [ul \in UlTunnels |->
        IF cu_map[ul].up /\ cu_map[ul].handler = dl
        THEN [cu_map[ul] EXCEPT !.handler = Dangling] ELSE cu_map[ul]]

\* f1u_local_connector::create_cu_bearer; the caller gives a tunnel that no CU
\* bearer has (the function asserts it)
create_cu_bearer(ul_up_tnl_info) ==
    /\ ~f1u.cu_map[ul_up_tnl_info].up
    /\ f1u' = [f1u EXCEPT !.cu_map[ul_up_tnl_info] = [NoCuBearer EXCEPT !.up = TRUE]]
    /\ UNCHANGED others_f

\* f1u_local_connector::attach_dl_teid
attach_dl_teid(ul_up_tnl_info, dl_up_tnl_info) ==
    /\ IF ~f1u.cu_map[ul_up_tnl_info].up \/ ~f1u.du_map[dl_up_tnl_info].up
       THEN UNCHANGED f1u
       ELSE f1u' = [f1u EXCEPT !.cu_map[ul_up_tnl_info] =
                       attach_du_handler([@ EXCEPT !.dl_tnl_info = dl_up_tnl_info],
                                         dl_up_tnl_info)]
    /\ UNCHANGED others_f

\* f1u_local_connector::disconnect_cu_bearer
disconnect_cu_bearer(ul_up_tnl_info) ==
    /\ IF ~f1u.cu_map[ul_up_tnl_info].up
       THEN UNCHANGED f1u
       ELSE LET cu_tun   == f1u.cu_map[ul_up_tnl_info]
                detached ==
                    IF cu_tun.dl_tnl_info # NoTunnel /\ f1u.du_map[cu_tun.dl_tnl_info].up
                    THEN [f1u.du_map EXCEPT ![cu_tun.dl_tnl_info] = detach_cu_handler(@)]
                    ELSE f1u.du_map
            IN  f1u' = [cu_map |-> [f1u.cu_map EXCEPT ![ul_up_tnl_info] = NoCuBearer],
                        du_map |-> CuDestroyed(detached, ul_up_tnl_info)]
    /\ UNCHANGED others_f

\* f1u_local_connector::create_du_bearer; std::map::insert leaves a bearer that
\* has the tunnel already in its place
create_du_bearer(dl_up_tnl_info, ul_up_tnl_info) ==
    /\ IF ~f1u.cu_map[ul_up_tnl_info].up \/ f1u.du_map[dl_up_tnl_info].up
       THEN UNCHANGED f1u
       ELSE f1u' = [f1u EXCEPT !.du_map[dl_up_tnl_info] =
                       attach_cu_handler([NoDuBearer EXCEPT !.up = TRUE,
                                                            !.ul_up_tnl_info = ul_up_tnl_info],
                                         ul_up_tnl_info)]
    /\ UNCHANGED others_f

\* f1u_local_connector::remove_du_bearer
remove_du_bearer(dl_up_tnl_info) ==
    /\ IF ~f1u.du_map[dl_up_tnl_info].up
       THEN UNCHANGED f1u
       ELSE LET ul       == f1u.du_map[dl_up_tnl_info].ul_up_tnl_info
                detached ==
                    IF f1u.cu_map[ul].up
                    THEN [f1u.cu_map EXCEPT ![ul] = detach_du_handler(@, dl_up_tnl_info)]
                    ELSE f1u.cu_map
            IN  f1u' = [cu_map |-> DuDestroyed(detached, dl_up_tnl_info),
                        du_map |-> [f1u.du_map EXCEPT ![dl_up_tnl_info] = NoDuBearer]]
    /\ UNCHANGED others_f

F1uNext ==
    \/ \E ul \in UlTunnels : create_cu_bearer(ul)
    \/ \E ul \in UlTunnels, dl \in DlTunnels : attach_dl_teid(ul, dl)
    \/ \E ul \in UlTunnels : disconnect_cu_bearer(ul)
    \/ \E dl \in DlTunnels, ul \in UlTunnels : create_du_bearer(dl, ul)
    \/ \E dl \in DlTunnels : remove_du_bearer(dl)

Init ==
    HarqStart /\ EventStart /\ EntStart /\ DuStart /\ DciStart /\ PipeStart /\ F1uStart

Next ==
    \/ \E slot_rx \in SlotVals : NewSlot(slot_rx)
    \/ \E ack \in BOOLEAN : AckInfo(ack)
    \/ \E s \in SlotPairs, g \in Grants, m \in McsVals, r \in MaxRetxVals :
          NewTx(s[1], s[2], g, m, r)
    \/ \E tbs \in TbsVals : SetTbs(tbs)
    \/ \E mcs \in McsVals : SetMcs(mcs)
    \/ \E s \in SlotPairs : NewRetx(s[1], s[2])
    \/ \E s \in SlotPairs, g \in Grants : NewRetxGrant(s[1], s[2], g)

Spec == Init /\ [][Next]_vars

(***************************************************************************)
(* The same calls with grants of every shape (and fewer slots)             *)
(***************************************************************************)

ShapeNext ==
    \/ \E slot_rx \in {0, 1} : NewSlot(slot_rx)
    \/ \E ack \in BOOLEAN : AckInfo(ack)
    \/ \E s \in ShapeSlotPairs, g \in ShapeGrants : NewTx(s[1], s[2], g, U32(5), 1)
    \/ \E s \in ShapeSlotPairs, g \in ShapeGrants : NewRetxGrant(s[1], s[2], g)
    \/ \E s \in ShapeSlotPairs : NewRetx(s[1], s[2])

SpecShape == Init /\ [][ShapeNext]_vars

(***************************************************************************)
(* Scenario A: new_tx at slot 10 with ack slot 14 and max_retx 4, no       *)
(* ack_info; new_slot is called for slots 14, 15, ... and a retransmission *)
(* is issued whenever the process is pending_retx (it is also attempted at *)
(* other times, and then fails).                                           *)
(***************************************************************************)

ScenNewTx ==
    /\ ~scen.started
    /\ \E g \in Grants, m \in McsVals :
          /\ h' = new_tx(h, 10, 14, g, m, 4).h
          /\ op' = BoolCall("new_tx", h, new_tx(h, 10, 14, g, m, 4))
    /\ scen' = [scen EXCEPT !.started = TRUE, !.now = 14]
    /\ UNCHANGED others_h

ScenNewSlot ==
    /\ scen.started
    /\ scen.now <= ScenLastSlot
    /\ h.state # "pending_retx"
    /\ h' = new_slot(h, scen.now)
    /\ op' = [name |-> "new_slot", from |-> h.state, ok |-> FALSE, val |-> 0]
    /\ scen' = [scen EXCEPT !.now = scen.now + 1]
    /\ UNCHANGED others_h

ScenNewRetx ==
    /\ scen.started
    /\ \E d \in 0..ScenMaxDelay :
          /\ h' = new_retx(h, scen.now, scen.now + d).h
          /\ op' = BoolCall("new_retx", h, new_retx(h, scen.now, scen.now + d))
          /\ scen' = [scen EXCEPT !.retx_ok =
                         IF new_retx(h, scen.now, scen.now + d).ret THEN @ + 1 ELSE @]
    /\ UNCHANGED others_h

ScenNext == ScenNewTx \/ ScenNewSlot \/ ScenNewRetx

SpecScenA == Init /\ [][ScenNext]_vars

(***************************************************************************)
(* Scenario A with the calls it names and no other: new_tx at slot 10 with *)
(* ack slot 14 and max_retx 4, then new_slot for slots 14, 15, ... without *)
(* end (the slot numbers wrap), and neither ack_info nor new_retx.         *)
(***************************************************************************)

ScenOnlyNewSlot ==
    /\ scen.started
    /\ h' = new_slot(h, scen.now)
    /\ op' = [name |-> "new_slot", from |-> h.state, ok |-> FALSE, val |-> 0]
    /\ scen' = [scen EXCEPT !.now = SlotNext(scen.now)]
    /\ UNCHANGED others_h

WrittenNext == ScenNewTx \/ ScenOnlyNewSlot

\* the scenario starts, and the slot indications never stop
SpecScenWritten ==
    Init /\ [][WrittenNext]_vars /\ WF_vars(ScenNewTx) /\ WF_vars(ScenOnlyNewSlot)

SpecEvents == Init /\ [][EventNext]_vars

SpecThreads == Init /\ [][ThreadNext]_vars

SpecPipe == Init /\ [][PipeNext]_vars

\* the producer thread and the run threads are scheduled again and again
SpecMutex ==
    Init /\ [][MtxNext]_vars /\ WF_vars(MtxLock \/ MtxAppend) /\ WF_vars(MtxRunNext)

\* the steps of the slot driver on the common list: the run calls of the started
\* cells, the move to the next slot and the start of a cell's slot indications
DriverNext ==
    \/ \E c \in Cells : RunCellSwap(c)
    \/ RunCommonSwap
    \/ RunCommonExecute
    \/ RunCommonDrop
    \/ RunCommonDropCell
    \/ RunCommonRequeue
    \/ RunDone
    \/ SlotAdvance
    \/ \E c \in Cells : StartCell(c)

\* the producers of the common list, the removal of a UE and the driver
CommonNext ==
    \/ \E u \in Ues : \E c \in CellsOf(u) :
           Cardinality(CellsOf(u)) > 1 /\ handle_sr_indication(c, u)
    \/ \E u \in Ues : \E c \in CellsOf(u) :
           Cardinality(CellsOf(u)) > 1 /\ handle_ul_bsr(c, u)
    \/ \E c \in CfgCells : handle_cell_configuration_request(c)
    \/ \E u \in Ues : RemoveUe(u)
    \/ DriverNext

\* the steps of the run calls and of the slot driver
RunNext ==
    \/ \E c \in Cells : RunCellSwap(c)
    \/ RunCellExecute
    \/ RunCellDrop
    \/ RunCommonSwap
    \/ RunCommonExecute
    \/ RunCommonDrop
    \/ RunCommonRequeue
    \/ RunDone
    \/ SlotAdvance
    \/ \E c \in Cells : StartCell(c)

\* the event manager under slot indications that do not stop before the last slot
\* the events of the UEs and of the cells, the removal of a UE, and the event
\* manager under slot indications that do not stop before the last slot
StaleNext ==
    \/ \E u \in Ues : \E c \in CellsOf(u) : handle_sr_indication(c, u)
    \/ \E c \in Cells : handle_rach_indication(c)
    \/ \E u \in Ues : RemoveUe(u)
    \/ RunNext

SpecEventsLive == Init /\ [][StaleNext]_vars /\ WF_vars(RunNext)

\* the common list under slot indications that do not stop before the last slot
SpecEventsFair == Init /\ [][CommonNext]_vars /\ WF_vars(DriverNext)

SpecEntity == Init /\ [][EntityNext]_vars

SpecDu == Init /\ [][DuNext]_vars

SpecWrap == Init /\ [][WrapNext]_vars

SpecF1u == Init /\ [][F1uNext]_vars

(***************************************************************************)
(* Properties of the HARQ process                                          *)
(***************************************************************************)

\* C1: new_tx returns success if and only if the process is empty; right after a
\* successful call the state is waiting_ack and ndi is the negation of its value
\* before the call.
C1_NewTxIffEmpty ==
    [][op'.name = "new_tx" =>
          /\ op'.ok <=> (h.state = "empty")
          /\ op'.ok => (h'.state = "waiting_ack" /\ h'.ndi = ~h.ndi)]_hvars

\* a second transport block has just been started on a process used before
C1_Witness ==
    op.name = "new_tx" /\ op.ok /\ h.state = "waiting_ack" /\ h.ndi = FALSE

\* the int v returned is the uint32_t u
Returns(v, u) == v >= 0 /\ U32(v) = u

\* C2: on a process in waiting_ack, ack_info(ack=true) leaves the process empty
\* and returns the stored tbs; ack_info(ack=false) leaves it in pending_retx and
\* returns 0.
C2_AckInfoWaitingAck ==
    [][\A ack \in BOOLEAN :
          (AckInfo(ack) /\ h.state = "waiting_ack") =>
              IF ack THEN h'.state = "empty" /\ Returns(op'.val, h.tbs)
              ELSE h'.state = "pending_retx" /\ op'.val = 0]_hvars

\* C3: ack_info on an empty process returns the failure sentinel -1 and leaves
\* every field of the process unchanged, for ack=true and for ack=false.
C3_AckInfoOnEmpty ==
    [][\A ack \in BOOLEAN :
          (AckInfo(ack) /\ h.state = "empty") => (op'.val = -1 /\ h' = h)]_hvars

\* ack_info has just failed on a process that was used and retransmitted before
C3_Witness ==
    op.name = "ack_info" /\ op.from = "empty" /\ op.val = -1 /\ h.n_rtx > 0

\* C4: new_slot changes nothing on an empty process, nor on a non-empty process
\* when slot_rx is earlier than slot_ack (so it does not move waiting_ack to empty
\* before the ack slot has elapsed).
C4_NewSlotNoOp ==
    [][\A slot_rx \in SlotVals :
          (NewSlot(slot_rx) /\ (h.state = "empty" \/ SlotLess(slot_rx, h.slot_ack))) =>
              h' = h]_hvars

\* new_slot has just been called on a process still waiting for its ack
C4_Witness ==
    op.name = "new_slot" /\ op.from = "waiting_ack" /\ h.state = "waiting_ack"

\* C5: a process in waiting_ack with n_rtx = max_retx becomes empty in the first
\* new_slot(slot_rx) call with slot_rx not earlier than slot_ack: the implicit
\* NACK and the discard happen in that one call.
C5_DiscardAtLimit ==
    [][\A slot_rx \in SlotVals :
          (/\ NewSlot(slot_rx)
           /\ h.state = "waiting_ack"
           /\ h.n_rtx = h.max_retx
           /\ ~SlotLess(slot_rx, h.slot_ack)) => h'.state = "empty"]_hvars

\* a process retransmitted max_retx >= 1 times has just been discarded by new_slot
C5_Witness ==
    /\ op.name = "new_slot" /\ op.from = "waiting_ack" /\ h.state = "empty"
    /\ h.n_rtx = h.max_retx /\ h.n_rtx >= 1

\* C6: in Scenario A new_retx succeeds exactly 4 times: never a 5th time, the
\* process is not empty before the 4th, and it is empty once the slots are over.
C6_ScenarioA ==
    /\ scen.retx_ok <= 4
    /\ (scen.started /\ h.state = "empty") => scen.retx_ok = 4
    /\ (scen.started /\ scen.now > ScenLastSlot) => h.state = "empty"

\* the process of Scenario A has just been discarded by new_slot
C6_Witness ==
    /\ scen.started /\ scen.retx_ok = 4 /\ h.state = "empty"
    /\ op.name = "new_slot" /\ op.from = "waiting_ack"

\* C7: on a non-empty process n_rtx never exceeds the max_retx of its last new_tx.
C7_NRtxBounded == h.state # "empty" => h.n_rtx <= h.max_retx

\* the shapes of two grants differ: another allocation type, or type 0 with another
\* RBG count, or type 1 with another length
ShapeMismatch(g1, g2) ==
    \/ g1.alloc_type0 # g2.alloc_type0
    \/ g1.alloc_type0 /\ g2.alloc_type0 /\ Cardinality(g1.rbgs) # Cardinality(g2.rbgs)
    \/ ~g1.alloc_type0 /\ ~g2.alloc_type0 /\ g1.stop - g1.start # g2.stop - g2.start

\* C8: new_retx with a grant whose shape differs from the stored grant fails and
\* leaves the process (state pending_retx, n_rtx, slots, ack_state, stored grant)
\* unchanged.
C8_ShapeCheck ==
    [][\A s \in ShapeSlotPairs, g \in ShapeGrants :
          (/\ NewRetxGrant(s[1], s[2], g)
           /\ h.state = "pending_retx"
           /\ ShapeMismatch(g, h.prbs)) => (~op'.ok /\ h' = h)]_hvars

\* new_retx with a grant has just failed on a process in pending_retx
C8_Witness ==
    /\ op.name = "new_retx_grant" /\ op.from = "pending_retx" /\ ~op.ok
    /\ h.state = "pending_retx"

(***************************************************************************)
(* Properties of the event lists.  The slots of a list are counted by its  *)
(* swaps: an event enqueued when the list had been swapped n times was     *)
(* enqueued during the list's slot n, and slot n+1 starts with the next    *)
(* swap.                                                                   *)
(***************************************************************************)

Enqueued == {e \in EventIds : ev_log[e].list # -1}

\* the processing of the slot that follows the one in which e was enqueued is over
\* for the list of e: the list was swapped for it and run is done draining it
NextSlotOver(e) ==
    \/ n_swaps[ev_log[e].list] > ev_log[e].enq_swaps + 1
    \/ n_swaps[ev_log[e].list] = ev_log[e].enq_swaps + 1 /\ ~Draining(ev_log[e].list)

InBuffer(buf, e) == \E i \in DOMAIN buf[ev_log[e].list] : buf[ev_log[e].list][i].id = e

Occurrences(e) ==
    Cardinality({i \in DOMAIN next_events[ev_log[e].list] :
                     next_events[ev_log[e].list][i].id = e})
    + Cardinality({i \in DOMAIN current_events[ev_log[e].list] :
                     current_events[ev_log[e].list][i].id = e})

SameBufferInOrder(e1, e2) ==
    /\ e1 < e2
    /\ ev_log[e1].list = ev_log[e2].list
    /\ ev_log[e1].enq_swaps = ev_log[e2].enq_swaps

\* event e waits in a buffer of list l, and it is an event of UE ue
Waiting(l, e, ue) ==
    \/ \E i \in DOMAIN next_events[l] : next_events[l][i].id = e /\ next_events[l][i].ue = ue
    \/ \E i \in DOMAIN current_events[l] :
          current_events[l][i].id = e /\ current_events[l][i].ue = ue

\* in buffer buf the events of one UE that come from one next buffer stand in the
\* order of their appends
InAppendOrder(buf) ==
    \A i \in DOMAIN buf, j \in DOMAIN buf :
        (/\ i < j
         /\ buf[i].ue # NoUe
         /\ buf[i].ue = buf[j].ue
         /\ ev_log[buf[i].id].enq_swaps = ev_log[buf[j].id].enq_swaps) => buf[i].id < buf[j].id

\* C11: of two events appended for the same UE to the same next buffer, e1 before
\* e2 (by whichever producers, in the order of their appends), e1 stands before e2
\* in every buffer that holds both, and when the callback of e2 runs e1 is not
\* waiting in a buffer any more: it was taken first, so its callback ran first.
C11_FifoPerList ==
    /\ [](\A l \in Lists : InAppendOrder(next_events[l]) /\ InAppendOrder(current_events[l]))
    /\ [][\A l \in Lists :
             (/\ current_events[l] # <<>>
              /\ Head(current_events[l]).ue # NoUe
              /\ ev_log'[Head(current_events[l]).id].execs >
                     ev_log[Head(current_events[l]).id].execs) =>
                 \A e1 \in Enqueued :
                     SameBufferInOrder(e1, Head(current_events[l]).id) =>
                         ~Waiting(l, e1, Head(current_events[l]).ue)]_vars

\* two events appended for one UE to the same next buffer have been swapped into
\* the current buffer, in the order of their appends, and run is draining it
C11_Witness ==
    \E l \in Lists :
        /\ Draining(l)
        /\ Len(current_events[l]) >= 2
        /\ current_events[l][1].ue # NoUe
        /\ current_events[l][1].ue = current_events[l][2].ue
        /\ current_events[l][1].ue \in ue_db
        /\ SameBufferInOrder(current_events[l][1].id, current_events[l][2].id)

\* the event is a cell configuration request that names no cell of the scheduler
NamesUnknownCell(ev) == ev.cell # NoCell /\ ev.cell \notin Cells

DrainedList == IF run.pc = "cell_drain" THEN run.cell ELSE CommonList

LinesFor(log, dir, pid) == {k \in DOMAIN log : log[k].dir = dir /\ log[k].pid = pid}

\* C14: harq_entity::new_slot logs the discard of a DL or UL process if and only if
\* the process was not empty before the call and is empty after it, and then it
\* logs it once; for a process that was empty before the call (emptied by a
\* positive ack_info, or never used) it logs nothing.
C14_DiscardDiagnostic ==
    [][\A s \in EntSlots :
          EntityNewSlot(s) =>
              \A d \in Dirs, pid \in Pids :
                  /\ (ent[d][pid + 1].state # "empty" /\ ent'[d][pid + 1].state = "empty")
                        => Cardinality(LinesFor(ent'.log, d, pid)) = 1
                  /\ ~(ent[d][pid + 1].state # "empty" /\ ent'[d][pid + 1].state = "empty")
                        => LinesFor(ent'.log, d, pid) = {}]_vars

\* new_slot has just discarded the DL process and logged it, and has logged nothing
\* for the UL process, which a positive ack_info had emptied before
C14_Witness ==
    /\ Len(ent.log) = 1
    /\ ent.log[1].dir = "dl"
    /\ ent.dl[1].state = "empty"
    /\ ent.ul[1].state = "empty"
    /\ ent.ul[1].ack_state

\* the request names a DU that is already configured
DuplicateDuId(req) == du.dus[req.gnb_du_id].up

\* the request lists a CGI that another configured DU serves
CgiServedByOther(req) ==
    \E d \in ConfiguredDus(du.dus) \ {req.gnb_du_id} :
        CgisOf(du.dus[d].served_cells) \cap RequestedCgis(req.gnb_du_served_cells_list) # {}

\* the request lists more cells than a DU may have
TooManyCells(req) == Len(req.gnb_du_served_cells_list) > MAX_NOF_DU_CELLS

\* C15: a DU setup request whose gNB-DU-Id is that of a configured DU, or that
\* lists a CGI served by another configured DU, or that lists more than
\* MAX_NOF_DU_CELLS cells, is rejected with a cause, and the configured DUs, their
\* served cells and the handlers' contexts are as they were before the request.
C15_SetupRejected ==
    [][\/ /\ ~du'.res.ok
          /\ du'.res.cause \in {"msg_not_compatible_with_receiver_state", "semantic_error"}
          /\ du'.dus = du.dus
          /\ du'.ctxt = du.ctxt
       \/ \A req \in SetupRequests :
              DuplicateDuId(req) \/ CgiServedByOther(req) \/ TooManyCells(req)
                  => \A hd \in HandlerIds : ~handle_new_du_config(hd, req)]_vars

\* C15 witness: the setup of a second DU was rejected because the first DU serves
\* one of its cells, and the first DU is all that is configured
C15_Witness ==
    /\ du.res.text = "Duplicate served cell CGI"
    /\ ~du.res.ok
    /\ \E d \in DuIds : ConfiguredDus(du.dus) = {d} /\ Len(du.dus[d].served_cells) = 1
    /\ \E hd \in HandlerIds : du.ctxt[hd] = NullCtxt

\* the manager refuses the update: the request names another DU than the one the
\* handler was set up for, or that DU is not found, or the validation fails
ManagerRefuses(hd, req) ==
    /\ du.ctxt[hd] # NullCtxt
    /\ \/ req.gnb_du_id # du.ctxt[hd]
       \/ ~du.dus[du.ctxt[hd]].up
       \/ ~validate_du_config_update(req).ok

\* C16: a DU configuration update that the manager refuses is returned to the
\* caller as a rejection, the handler still refers to its DU context afterwards,
\* and the configured DUs and their served cells are unchanged.
C16_UpdateRefusalSurfaced ==
    [][\/ /\ ~du'.res.ok
          /\ du'.ctxt = du.ctxt
          /\ du'.dus = du.dus
       \/ \A hd \in HandlerIds, req \in UpdateRequests :
              ManagerRefuses(hd, req) => ~handle_du_config_update(hd, req)]_vars

\* the call recorded in op' took a failure branch of the code: a bool call that
\* returned false, or ack_info on an empty process
FailedCall ==
    \/ op'.name \in {"new_tx", "set_tbs", "set_mcs", "new_retx", "new_retx_grant"} /\ ~op'.ok
    \/ op'.name = "ack_info" /\ op'.from = "empty"

\* new_slot is called with a slot that is not earlier than the ack slot
AckSlotReached == \E slot_rx \in SlotVals : NewSlot(slot_rx) /\ ~SlotLess(slot_rx, h.slot_ack)

\* C17: the state of a HARQ process changes only from empty to waiting_ack (a
\* successful new_tx), from waiting_ack to pending_retx (a negative ack_info, or
\* new_slot once the ack slot is reached), from pending_retx to waiting_ack (a
\* successful new_retx), and from waiting_ack or pending_retx to empty (a positive
\* ack_info, or new_slot discarding at the retransmission limit); never from empty
\* to pending_retx; and a call that fails leaves the state as it was.
C17_StateEdges ==
    [][/\ (h.state = "empty" /\ h'.state # "empty")
              => h'.state = "waiting_ack" /\ op'.name = "new_tx" /\ op'.ok
       /\ (h.state = "waiting_ack" /\ h'.state = "pending_retx")
              => \/ op'.name = "ack_info" /\ ~h'.ack_state
                 \/ op'.name = "new_slot" /\ AckSlotReached /\ h.n_rtx + 1 <= h.max_retx
       /\ (h.state = "pending_retx" /\ h'.state = "waiting_ack")
              => op'.name \in {"new_retx", "new_retx_grant"} /\ op'.ok
       /\ (h.state # "empty" /\ h'.state = "empty")
              => \/ op'.name = "ack_info" /\ h'.ack_state
                 \/ op'.name = "new_slot" /\ AckSlotReached /\ h.n_rtx + 1 > h.max_retx
       /\ FailedCall => h'.state = h.state]_hvars

\* C17 witness: a pending retransmission has just been discarded by new_slot, on a
\* process that had been sent again after a negative acknowledgement
C17_Witness ==
    /\ op.name = "new_slot"
    /\ op.from = "pending_retx"
    /\ h.state = "empty"
    /\ h.n_rtx = 1
    /\ h.max_retx = 1

\* the process after a retransmission that was accepted
Retransmitted(p, slot_tx_, slot_ack_) ==
    [p EXCEPT !.state = "waiting_ack", !.n_rtx = p.n_rtx + 1, !.ack_state = FALSE,
              !.slot_tx = slot_tx_, !.slot_ack = slot_ack_]

\* C19: new_retx, with or without a grant, succeeds only if the state is
\* pending_retx; on success the state is waiting_ack, n_rtx is one more than
\* before, ack_state is false, slot_tx and slot_ack are the new values and, with
\* a grant, the stored grant is the new grant; when the state is empty or
\* waiting_ack the call fails and no field, the stored grant included, changes.
C19_NewRetx ==
    [][/\ \A s \in ShapeSlotPairs :
              NewRetx(s[1], s[2]) =>
                  /\ op'.ok => h.state = "pending_retx" /\ h' = Retransmitted(h, s[1], s[2])
                  /\ h.state # "pending_retx" => ~op'.ok /\ h' = h
       /\ \A s \in ShapeSlotPairs, g \in ShapeGrants :
              NewRetxGrant(s[1], s[2], g) =>
                  /\ op'.ok => /\ h.state = "pending_retx"
                               /\ h' = [Retransmitted(h, s[1], s[2]) EXCEPT !.prbs = g]
                  /\ h.state # "pending_retx" => ~op'.ok /\ h' = h]_hvars

\* C19 witness: a retransmission with a grant of the same shape at another place
\* has just been accepted
C19_Witness ==
    /\ op.name = "new_retx_grant"
    /\ op.ok
    /\ op.from = "pending_retx"
    /\ h.state = "waiting_ack"
    /\ h.n_rtx = 1
    /\ h.prbs = Type1Grant(1, 2)
    /\ h.slot_tx = 1

\* the process is in its first transmission attempt
FirstAttempt == h.state # "empty" /\ h.n_rtx = 0

\* C20: set_tbs and set_mcs succeed if and only if the process is not empty and
\* n_rtx = 0, in waiting_ack as well as in pending_retx; on success tbs
\* (respectively mcs) is the value given and nothing else changes; on failure
\* nothing changes.
C20_SetTbsSetMcs ==
    [][/\ \A tbs \in TbsVals :
              SetTbs(tbs) => /\ op'.ok <=> FirstAttempt
                             /\ h' = IF FirstAttempt THEN [h EXCEPT !.tbs = tbs] ELSE h
       /\ \A mcs \in McsVals :
              SetMcs(mcs) => /\ op'.ok <=> FirstAttempt
                             /\ h' = IF FirstAttempt THEN [h EXCEPT !.mcs = mcs] ELSE h]_hvars

\* C20 witness: the tbs has just been set on a process whose first transmission
\* waits for its retransmission
C20_Witness ==
    /\ op.name = "set_tbs"
    /\ op.ok
    /\ op.from = "pending_retx"
    /\ h.state = "pending_retx"
    /\ h.n_rtx = 0
    /\ h.tbs = Uint32Max

\* C18 as stated: in Scenario A with new_slot as the only call after new_tx, the
\* process eventually becomes empty.
C18_EventuallyEmpty == scen.started ~> h.state = "empty"

\* C18: in Scenario A with new_slot as the only call after new_tx, the process is
\* never empty again: it waits for its ack until new_slot is called for slot 14,
\* is pending_retx from then on, and its n_rtx stays 0, below max_retx.
C18_StaysPending ==
    scen.started =>
        /\ h.state # "empty"
        /\ h.n_rtx = 0
        /\ h.max_retx = 4
        /\ h.state = "waiting_ack" <=> (scen.now = 14 /\ op.name = "new_tx")

\* C18 witness: new_slot has been called for every slot number, those after the
\* wrap included, and the transmission is still pending
C18_Witness ==
    /\ scen.started
    /\ scen.now = 14
    /\ op.name = "new_slot"
    /\ op.from = "pending_retx"
    /\ h.state = "pending_retx"

\* C21: after a successful new_tx the process has n_rtx = 0, ack_state false, the
\* mcs and the max_retx of the call, and tbs 0, whatever the previous transport
\* block left behind; tbs stays 0 until set_tbs is called; a new_tx on a process
\* that is not empty fails and changes no field.  (The slots and the grant of the
\* call are read from the process after the call, where new_tx stores them.)
C21_NewTxResets ==
    [][/\ (op'.name = "new_tx" /\ h.state # "empty") => ~op'.ok /\ h' = h
       /\ (op'.name = "new_tx" /\ h.state = "empty") =>
              /\ op'.ok
              /\ h'.n_rtx = 0
              /\ ~h'.ack_state
              /\ h'.tbs = U32(0)
              /\ \A m \in McsVals, r \in MaxRetxVals :
                     NewTx(h'.slot_tx, h'.slot_ack, h'.prbs, m, r) =>
                         h'.mcs = m /\ h'.max_retx = r
       /\ h'.tbs # h.tbs => op'.name = "set_tbs" \/ (op'.name = "new_tx" /\ op'.ok)]_hvars

\* C21 witness: a transport block has just been started on a process whose
\* previous block was discarded at n_rtx = max_retx with its ack flag set
C21_Witness ==
    /\ op.name = "new_tx"
    /\ op.ok
    /\ h.n_rtx = 0
    /\ h.max_retx = 0
    /\ h.ndi = FALSE
    /\ h.tbs = U32(0)
    /\ h.mcs = U32(9)

\* the redundancy version of a transmission that follows n retransmissions
RvOf(n) == CASE n % 4 = 0 -> 0 [] n % 4 = 1 -> 2 [] n % 4 = 2 -> 3 [] n % 4 = 3 -> 1

\* C22: the DCI filled by a successful new_tx or new_retx of a dl_harq_proc or
\* ul_harq_proc carries the pid of the process, the ndi and the mcs the process
\* has after the call, and the redundancy version 0, 2, 3, 1, 0, ... of its n-th
\* retransmission (0 for a new transmission); a wrapper whose call on the
\* harq_proc fails leaves the DCI as it was.
C22_DciFilled ==
    [][op'.name \in {"new_tx", "new_retx"} =>
          IF op'.ok
          THEN /\ dci'.out.pid = dci.pid
               /\ dci'.out.ndi = h'.ndi
               /\ dci'.out.mcs = h'.mcs
               /\ dci'.out.rv = RvOf(h'.n_rtx)
               /\ op'.name = "new_tx" => dci'.out.rv = 0
               /\ op'.name = "new_retx" => h'.n_rtx = h.n_rtx + 1
          ELSE dci'.out = dci.out /\ h' = h]_vars

\* C22 witness: the fourth retransmission of an uplink transport block has just
\* been granted, with the redundancy version of a first transmission
C22_Witness ==
    /\ dci.kind = "ul"
    /\ dci.pid = 7
    /\ op.name = "new_retx"
    /\ op.ok
    /\ h.n_rtx = 4
    /\ dci.out.rv = 0
    /\ dci.out.pid = 7
    /\ dci.out.mcs = U32(9)

\* C23: ndi changes in a successful new_tx and in no other call: new_retx,
\* ack_info, new_slot, set_tbs, set_mcs and every failing call leave it as it is,
\* so the retransmissions of a transport block carry the ndi of its first
\* transmission, and the next transport block of the process the opposite one.
C23_NdiFrame ==
    [][/\ h'.ndi # h.ndi => op'.name = "new_tx" /\ op'.ok
       /\ (op'.name = "new_tx" /\ op'.ok) => h'.ndi = ~h.ndi]_hvars

\* C23 witness: the first transport block of the process (ndi true) has just
\* been retransmitted
C23_Witness ==
    /\ op.name \in {"new_retx", "new_retx_grant"}
    /\ op.ok
    /\ h.n_rtx = 1
    /\ h.ndi

\* C24: a process that is pending_retx with n_rtx = max_retx (a negative ack_info
\* put it there) is left as it is by every new_slot whose slot_rx is earlier than
\* slot_ack, and becomes empty in the first new_slot whose slot_rx is not earlier
\* than slot_ack, when no retransmission was issued before; and a process gets
\* into that condition by a negative ack_info while it waits for its ack.
C24_NackedAtLimit ==
    [][/\ \A slot_rx \in SlotVals :
              (NewSlot(slot_rx) /\ h.state = "pending_retx" /\ h.n_rtx = h.max_retx) =>
                  IF SlotLess(slot_rx, h.slot_ack) THEN h' = h
                  ELSE h' = [h EXCEPT !.state = "empty"]
       /\ (/\ h'.state = "pending_retx" /\ h'.n_rtx = h'.max_retx
           /\ ~(h.state = "pending_retx" /\ h.n_rtx = h.max_retx))
              => op'.name = "ack_info" /\ ~h'.ack_state /\ h.state = "waiting_ack"]_hvars

\* C24 witness: a transport block that may not be retransmitted was acknowledged
\* negatively and has just been discarded by new_slot
C24_Witness ==
    /\ op.name = "new_slot"
    /\ op.from = "pending_retx"
    /\ h.state = "empty"
    /\ h.n_rtx = 0
    /\ h.max_retx = 0
    /\ ~h.ack_state

\* C25: on a process in pending_retx, ack_info(ack=true) leaves the process empty
\* and returns the stored tbs; ack_info(ack=false) leaves it in pending_retx,
\* returns 0 and does not change n_rtx.
C25_AckInfoPendingRetx ==
    [][\A ack \in BOOLEAN :
          (AckInfo(ack) /\ h.state = "pending_retx") =>
              IF ack THEN h'.state = "empty" /\ Returns(op'.val, h.tbs)
              ELSE h'.state = "pending_retx" /\ op'.val = 0 /\ h'.n_rtx = h.n_rtx]_hvars

\* C26: ack_info on a process that is not empty returns a value that is not
\* negative, whatever tbs set_tbs accepted before, so that a negative value is
\* returned by a call on an empty process only.
C26_FailureDistinguishable ==
    [][op'.name = "ack_info" => (op'.val < 0 <=> h.state = "empty")]_hvars

\* the number of slots from slot a to slot b, modulo the period
SlotsUntil(a, b) == (b - a + NofSlots) % NofSlots

\* slot a lies before the wrap of the slot counter and slot b after it
AcrossWrap(a, b) == b < a /\ SlotsUntil(a, b) < NofSlots \div 2

\* C27: the time-out of new_slot is right across the wrap of the slot counter.
\* While slot_rx is earlier than slot_ack by fewer than half a period, slot_ack
\* lying after the wrap and slot_rx before it included, new_slot leaves the
\* process as it is; once slot_rx has reached slot_ack modulo the period, new_slot
\* takes the ack slot as elapsed: a process in waiting_ack becomes pending_retx or
\* empty.
C27_TimeoutAcrossWrap ==
    [][\A slot_rx \in SlotVals :
          (NewSlot(slot_rx) /\ h.state # "empty") =>
              /\ (0 < SlotsUntil(slot_rx, h.slot_ack)
                  /\ SlotsUntil(slot_rx, h.slot_ack) < NofSlots \div 2) => h' = h
              /\ SlotsUntil(h.slot_ack, slot_rx) < NofSlots \div 2 =>
                    /\ h'.state # "waiting_ack"
                    /\ h'.state = "empty" <=> h.n_rtx + 1 > h.max_retx]_hvars

\* C27 witness: a transport block sent in the last slot before the wrap, with its
\* ack slot after the wrap, has just been timed out by new_slot
C27_Witness ==
    /\ op.name = "new_slot"
    /\ op.from = "waiting_ack"
    /\ h.state = "pending_retx"
    /\ AcrossWrap(h.slot_tx, h.slot_ack)
    /\ h.slot_ack = 0

\* the UEs with carrier aggregation
CaUes == {u \in Ues : Cardinality(CellsOf(u)) > 1}

\* the event at the head of the common drain is directed at a CA UE whose
\* carriers are not synchronized
HeadUnsynchronized ==
    /\ run.pc = "common_drain"
    /\ current_events[CommonList] # <<>>
    /\ event_requires_sync(Head(current_events[CommonList]))
    /\ ~Synchronized(Head(current_events[CommonList]).ue)

\* the step that takes an unsynchronized event out of the common drain appends it
\* to the next buffer of the common list; its callback does not run and it is not
\* discarded
C28_PutBack ==
    [][(HeadUnsynchronized /\ current_events'[CommonList] # current_events[CommonList]) =>
           LET ev == Head(current_events[CommonList])
           IN  /\ next_events'[CommonList] = Append(next_events[CommonList], ev)
               /\ ev_log'[ev.id].execs = ev_log[ev.id].execs
               /\ ~ev_log'[ev.id].dropped
               /\ ev_log'[ev.id].requeues = ev_log[ev.id].requeues + 1]_vars

\* an event that was put back is in one buffer of the common list until it is
\* executed or discarded, and its callback never runs twice
C28_AtMostOnce ==
    [](\A e \in EventIds : ev_log[e].requeues > 0 =>
           /\ ev_log[e].execs <= 1
           /\ ~(ev_log[e].execs = 1 /\ ev_log[e].dropped)
           /\ (ev_log[e].execs = 1 \/ ev_log[e].dropped) <=>
                  ~(\/ InBuffer(next_events, e)
                    \/ InBuffer(current_events, e)))

\* the slot indications of every carrier of the CA UEs have started and the
\* driver has a further slot to indicate
SlotsContinue == (\A u \in CaUes : CellsOf(u) \subseteq slot.started) /\ slot.n < MaxSlot

\* C28, as stated: an unsynchronized common event is put back, and under continued
\* slot indications on all carriers of its UE a put-back event is eventually
\* executed, exactly once
C28_EventuallyExecuted ==
    /\ C28_PutBack
    /\ C28_AtMostOnce
    /\ \A e \in EventIds :
           (ev_log[e].requeues > 0 /\ SlotsContinue) ~> ev_log[e].execs = 1

\* C28: an unsynchronized common event is put back for the next slot, neither
\* executed nor discarded; under continued slot indications on all carriers of its
\* UE a put-back event is eventually executed, exactly once, unless its UE is
\* removed first, in which case it is discarded
C28_EventuallyConsumed ==
    /\ C28_PutBack
    /\ C28_AtMostOnce
    /\ \A e \in EventIds :
           (ev_log[e].requeues > 0 /\ SlotsContinue) ~>
               (ev_log[e].execs = 1 \/ (ev_log[e].dropped /\ CaUes \cap ue_db # CaUes))

\* an event of the CA UE was put back and executed one slot later, the UE being
\* still there
C28_Witness ==
    \E e \in EventIds :
        /\ ev_log[e].list = CommonList
        /\ ev_log[e].requeues = 1
        /\ ev_log[e].execs = 1
        /\ ev_log[e].exec_slot = SlotNext(ev_log[e].enq_slot)
        /\ CaUes \subseteq ue_db

\* a run call is past the point where it swaps the common list or returns
PastCommonSwap(c) == thr[c] = "common_drain" \/ c \in slot.done

HeadGone ==
    /\ run.pc # "idle"
    /\ current_events[DrainedList] # <<>>
    /\ Head(current_events[DrainedList]).ue # NoUe
    /\ Head(current_events[DrainedList]).ue \notin ue_db

\* the run calls of all the started cells have returned their results for the slot
SlotComplete ==
    /\ run.pc = "idle"
    /\ slot.done = slot.started
    /\ \A c \in slot.started : slot.res[c] = slot.sl_tx

\* C30: an event drained for a UE that does not exist any more is discarded and its
\* callback never runs; the discarding step leaves the rest of the current buffer
\* in place and in order, leaves the other events, the next buffers and the run
\* call as they are, and the run call it happens in and the run calls of the
\* other started cells for that slot return with their results before the driver
\* leaves the slot
C30_StaleEventDiscarded ==
    /\ [](\A e \in EventIds : ev_log[e].dropped => ev_log[e].execs = 0)
    /\ [][(HeadGone /\ current_events' # current_events) =>
              LET ev == Head(current_events[DrainedList])
              IN  /\ ev_log'[ev.id].dropped
                  /\ ev_log'[ev.id].execs = 0
                  /\ \A e \in EventIds \ {ev.id} : ev_log'[e] = ev_log[e]
                  /\ current_events' =
                         [current_events EXCEPT ![DrainedList] = Tail(@)]
                  /\ next_events' = next_events
                  /\ run' = run /\ slot' = slot /\ ue_db' = ue_db]_vars
    /\ [][slot'.sl_tx # slot.sl_tx => SlotComplete]_vars
    /\ HeadGone ~> SlotComplete

\* in one drain the first event was discarded, its UE being gone, the second was
\* executed, and both cells have returned their results for that slot
C30_Witness ==
    \E e1, e2 \in EventIds :
        /\ e1 < e2
        /\ ev_log[e1].list = ev_log[e2].list
        /\ ev_log[e1].dropped /\ ev_log[e1].execs = 0
        /\ ev_log[e1].seen_swaps = ev_log[e2].seen_swaps
        /\ ev_log[e2].execs = 1
        /\ ev_log[e2].exec_slot = slot.sl_tx
        /\ \A c \in Cells : slot.res[c] = slot.sl_tx
        /\ ue_db # Ues

\* the run thread of a cell holds the mutex of a list
HeldByRun(list) == mtx.held[list] \in Cells

\* a callback runs in the step
CallbackRuns == \E e \in EventIds : ev_log'[e].execs # ev_log[e].execs

\* the producer call in progress waits for the mutex of its list
ProducerWaits ==
    mtx.prod.list # -1 /\ ~mtx.prod.locked /\ mtx.held[mtx.prod.list] # Free

\* C31: the mutex of a list is held by a run thread only between its lock and the
\* swap that follows, and by a producer only for its append; a thread that drains
\* holds no mutex while a callback runs; a producer that waits for a mutex waits for
\* a thread that is about to swap, never for a drain; and every producer call, also
\* one made while the list is drained, returns
C31_MutexOnlyAcrossSwapAndAppend ==
    /\ [](\A l \in Lists :
             /\ HeldByRun(l) => thr[mtx.held[l]] = (IF l = CommonList THEN "common_lock"
                                                                       ELSE "cell_lock")
             /\ mtx.held[l] = Producer => mtx.prod.locked /\ mtx.prod.list = l)
    /\ [](ProducerWaits => thr[mtx.held[mtx.prod.list]] \in {"cell_lock", "common_lock"})
    /\ [][CallbackRuns =>
              \A c \in Cells : thr[c] \in {"cell_drain", "common_drain"} =>
                  \A l \in Lists : mtx.held[l] # c /\ mtx'.held[l] # c]_vars
    /\ (mtx.prod.list # -1) ~> (mtx.prod.list = -1)

\* an event was appended, by the producer or from inside a callback, while the
\* current buffer of its list was being drained and after a callback of that drain
\* had run; the call has returned and every mutex is free
C31_Witness ==
    \E e1, e2 \in EventIds :
        /\ e1 < e2
        /\ ev_log[e1].list = ev_log[e2].list
        /\ ev_log[e1].execs = 1
        /\ ev_log[e2].enq_busy
        /\ ev_log[e2].enq_swaps = ev_log[e1].exec_swaps
        /\ mtx.prod.list = -1
        /\ \A l \in Lists : mtx.held[l] = Free

\* the process a feedback event names, before the events of the slot were applied
\* and now
ProcBefore(ev) == pipe.before[ev.dir][ev.pid + 1]

ProcNow(ev) == ent[ev.dir][ev.pid + 1]

ListOfDir(dir) == IF dir = "dl" THEN pipe.dl_list ELSE pipe.ul_list

\* what the feedback makes of the transmission in this slot: acknowledged, given
\* up by new_slot, or pending for the lists
FeedbackOutcome(ev) ==
    IF ev.ack THEN "empty"
    ELSE IF ~SlotLess(pipe.sl, ProcBefore(ev).slot_ack)
            /\ ProcBefore(ev).n_rtx + 1 > ProcBefore(ev).max_retx THEN "empty"
    ELSE "pending_retx"

\* C32: the steps of a slot run in the order events, new_slot, collect, dl_sched,
\* ul_sched, publish; feedback is applied only in the first step, the lists are
\* built only in the third, from the processes as new_slot left them, and the
\* result is published last; a feedback event applied in slot S on an outstanding
\* transmission shows in the process state new_slot leaves and in the list the
\* policy is given in slot S
C32_PipelineOrder ==
    /\ [](/\ pipe.order = SubSeq(PipeSteps, 1, Len(pipe.order))
           /\ pipe.pc = PipeSteps[Len(pipe.order) + 1])
    /\ [][/\ (pipe'.applied # pipe.applied) => (pipe.pc \in {"events", "publish"})
          /\ (pipe'.dl_list # pipe.dl_list \/ pipe'.ul_list # pipe.ul_list) =>
                 (pipe.pc \in {"collect", "publish"})
          /\ (ent'.dl # ent.dl) => (pipe.pc \in {"events", "new_slot", "dl_sched"})
          /\ (ent'.ul # ent.ul) => (pipe.pc \in {"events", "new_slot", "ul_sched"})
          /\ (pipe'.res # pipe.res) =>
                 (pipe.order = SubSeq(PipeSteps, 1, 5) /\ pipe'.res = pipe.sl)]_vars
    /\ [](pipe.pc = "dl_sched" =>
             /\ pipe.dl_list = PendingRetx(ent.dl)
             /\ pipe.ul_list = PendingRetx(ent.ul)
             /\ \A i \in DOMAIN pipe.applied :
                    LET ev == pipe.applied[i]
                    IN  (Len(pipe.applied) = 1 /\ ProcBefore(ev).state # "empty") =>
                            /\ ProcNow(ev).state = FeedbackOutcome(ev)
                            /\ (ev.pid \in ListOfDir(ev.dir)) <=>
                                   (FeedbackOutcome(ev) = "pending_retx"))

\* a negative feedback was applied in this slot on a downlink transmission, and
\* the policy has retransmitted it in this slot, from the list it was given
C32_Witness ==
    /\ pipe.pc \in {"ul_sched", "publish"}
    /\ pipe.sl > 0
    /\ Len(pipe.applied) = 1
    /\ pipe.applied[1].dir = "dl" /\ ~pipe.applied[1].ack
    /\ ProcBefore(pipe.applied[1]).state = "waiting_ack"
    /\ pipe.applied[1].pid \in pipe.dl_list
    /\ ProcNow(pipe.applied[1]).state = "waiting_ack"
    /\ ProcNow(pipe.applied[1]).n_rtx = 1
    /\ ProcNow(pipe.applied[1]).slot_tx = pipe.sl

\* C33, as stated: the assertion 'Failed to allocate cell index' of the DU
\* configuration update never fails
C33_IndexAlwaysFree == ~du.aborted

\* the (DU, position) pairs of the served cells of the configured DUs
ServedPositions ==
    {p \in DuIds \X (1..(MAX_NOF_DU_CELLS + 1)) :
        /\ du.dus[p[1]].up
        /\ p[2] <= Len(du.dus[p[1]].served_cells)}

\* C34, as stated: no cell CGI is served by two different configured DUs,
\* and none appears twice within one DU
C34_CgiServedOnce ==
    \A p \in ServedPositions : \A q \in ServedPositions :
        (p # q) =>
            (du.dus[p[1]].served_cells[p[2]].cgi
                # du.dus[q[1]].served_cells[q[2]].cgi)

\* the cell indices of a list of served cells, and the lowest index that none
\* of the cells before position k uses
IndicesBefore(served_cells, k) ==
    {served_cells[j].cell_index : j \in 1..(k - 1)}

LowestUnused(served_cells, k) ==
    CHOOSE i \in 0..MAX_NOF_DU_CELLS :
        /\ i \notin IndicesBefore(served_cells, k)
        /\ \A j \in 0..(i - 1) : j \in IndicesBefore(served_cells, k)

DistinctIndices(served_cells) ==
    \A i \in DOMAIN served_cells : \A j \in DOMAIN served_cells :
        (i # j) => (served_cells[i].cell_index # served_cells[j].cell_index)

\* C35: after any sequence of DU setups and configuration updates the cell
\* indices of the served cells of each DU are pairwise distinct, and a cell
\* added by an update receives the lowest index that the cells remaining after
\* the removals, and the cells added before it, do not use.
C35_LowestFreeIndex ==
    /\ [](\A d \in DuIds : DistinctIndices(du.dus[d].served_cells))
    /\ [][\A req \in UpdateRequests :
              (\E hd \in HandlerIds :
                   /\ du.ctxt[hd] = req.gnb_du_id
                   /\ handle_du_config_update(hd, req)
                   /\ ~du'.aborted) =>
                  LET now   == du'.dus[req.gnb_du_id].served_cells
                      kept  == Len(now) - Len(req.served_cells_to_add)
                      was   == du.dus[req.gnb_du_id].served_cells
                  IN  /\ kept >= 0
                      /\ \A k \in 1..kept : \E j \in DOMAIN was : now[k] = was[j]
                      /\ \A k \in (kept + 1)..Len(now) :
                             /\ now[k].cgi = req.served_cells_to_add[k - kept].nr_cgi
                             /\ now[k].cell_index = LowestUnused(now, k)]_vars

\* C35 witness: a DU serves two cells, and the second in the list has the lower
\* index: it was added by an update after the cell with index 0 had been removed
C35_Witness ==
    /\ ~du.aborted
    /\ du.res.ok
    /\ \E d \in DuIds :
           /\ du.dus[d].up
           /\ Len(du.dus[d].served_cells) = 2
           /\ du.dus[d].served_cells[1].cell_index = 1
           /\ du.dus[d].served_cells[2].cell_index = 0

\* a setup on a handler that holds a context, and an update on a handler that
\* holds none, are rejected and change neither the DUs nor the contexts
GuardedByContext ==
    [][\A hd \in HandlerIds :
           /\ (/\ du.ctxt[hd] # NullCtxt
               /\ \E req \in SetupRequests : handle_new_du_config(hd, req))
                  => (~du'.res.ok /\ du'.dus = du.dus /\ du'.ctxt = du.ctxt)
           /\ (/\ du.ctxt[hd] = NullCtxt
               /\ \E req \in UpdateRequests : handle_du_config_update(hd, req))
                  => (~du'.res.ok /\ du'.dus = du.dus /\ du'.ctxt = du.ctxt)]_vars

\* every configured DU is the context of a handler, whose destruction removes it
RemovedWithHandler ==
    /\ [](\A d \in ConfiguredDus(du.dus) : \E hd \in HandlerIds : du.ctxt[hd] = d)
    /\ [][\A hd \in HandlerIds :
              (du.ctxt[hd] # NullCtxt /\ DestroyHandler(hd))
                  => (~du'.dus[du.ctxt[hd]].up /\ du'.ctxt[hd] = NullCtxt)]_vars

\* C36, as stated: handle_new_du_config on a handler that already holds a DU
\* context is rejected and changes nothing; handle_du_config_update on a handler
\* without a context is rejected; and every DU added through a handler is
\* removed from the manager when that handler is destroyed, so that its
\* gNB-DU-Id and CGIs can be set up again.
C36_HandlerLifecycle == GuardedByContext /\ RemovedWithHandler

\* C37: for an uplink HARQ process the ack slot equals the transmission slot:
\* after a successful new_tx or new_retx at slot_tx the process waits for the
\* acknowledgement with slot_ack = slot_tx; new_slot with slot_rx earlier than
\* slot_tx leaves it as it is, and new_slot with slot_rx at or after slot_tx,
\* no ack_info having come, makes it pending_retx, or empty when n_rtx has
\* reached max_retx.
C37_UlAckSlotIsTxSlot ==
    [][/\ (dci.kind = "ul" /\ op'.name \in {"new_tx", "new_retx"} /\ op'.ok)
              => (h'.state = "waiting_ack" /\ h'.slot_ack = h'.slot_tx)
       /\ (dci.kind = "ul" /\ h.state = "waiting_ack") =>
              \A slot_rx \in WrapRxSlots :
                  NewSlot(slot_rx) =>
                      IF SlotLess(slot_rx, h.slot_tx) THEN h' = h
                      ELSE IF h.n_rtx < h.max_retx
                      THEN h' = [h EXCEPT !.state = "pending_retx"]
                      ELSE h' = [h EXCEPT !.state = "empty"]]_vars

\* C37 witness: an uplink process sent at slot 1 and sent again at slot 1 after
\* the implicit NACK has just been discarded by new_slot, no ack_info having come
C37_Witness ==
    /\ dci.kind = "ul"
    /\ op.name = "new_slot"
    /\ op.from = "waiting_ack"
    /\ h.state = "empty"
    /\ h.slot_tx = 1
    /\ h.n_rtx = 1
    /\ h.max_retx = 1

\* a call that is not a successful new_tx, and a successful retransmission
NoNewTx == ~(op'.name = "new_tx" /\ op'.ok)

RetxDone == op'.name \in {"new_retx", "new_retx_grant"} /\ op'.ok

\* C38, as stated: between two successful new_tx calls n_rtx never decreases
\* and changes only by +1 on a successful new_retx; ack_info, new_slot, set_tbs,
\* set_mcs and failing calls leave n_rtx, mcs and max_retx unchanged
C38_FrameWithMcs ==
    [][NoNewTx =>
           /\ h'.n_rtx = IF RetxDone THEN h.n_rtx + 1 ELSE h.n_rtx
           /\ ~RetxDone => (h'.mcs = h.mcs /\ h'.max_retx = h.max_retx)]_hvars

\* C38, amended: between two successful new_tx calls n_rtx never decreases and
\* changes only by +1 on a successful new_retx; ack_info, new_slot, set_tbs,
\* set_mcs and failing calls leave n_rtx and max_retx unchanged, and they leave
\* mcs unchanged too, except for a successful set_mcs, which happens only while
\* n_rtx is 0
C38_Frame ==
    [][NoNewTx =>
           /\ h'.n_rtx = IF RetxDone THEN h.n_rtx + 1 ELSE h.n_rtx
           /\ ~RetxDone => h'.max_retx = h.max_retx
           /\ (~RetxDone /\ ~(op'.name = "set_mcs" /\ op'.ok)) => h'.mcs = h.mcs
           /\ (op'.name = "set_mcs" /\ op'.ok) => h.n_rtx = 0]_hvars

\* C38 witness: set_mcs has just failed on a process that waits for the
\* acknowledgement of its first retransmission
C38_Witness ==
    /\ op.name = "set_mcs"
    /\ ~op.ok
    /\ op.from = "waiting_ack"
    /\ h.state = "waiting_ack"
    /\ h.n_rtx = 1

\* no DU bearer in the DU map is attached to the receive handler of a CU bearer
\* that disconnect_cu_bearer removed
NoDuBearerOnRemovedCu ==
    \A dl \in DlTunnels : f1u.du_map[dl].up => (f1u.du_map[dl].handler # Dangling)

\* no CU bearer in the CU map is attached to a DU bearer that remove_du_bearer
\* removed
NoCuBearerOnRemovedDu ==
    \A ul \in UlTunnels : f1u.cu_map[ul].up => (f1u.cu_map[ul].handler # Dangling)

\* C39, as stated: after disconnect_cu_bearer removes a CU bearer, no DU bearer
\* remaining in the DU map is still attached to the receive handler of the
\* removed CU bearer, whatever the order of create_cu_bearer, create_du_bearer,
\* attach_dl_teid, disconnect_cu_bearer and remove_du_bearer; and after
\* remove_du_bearer no CU bearer is still attached to the removed DU bearer.
C39_NoHandlerOfRemovedBearer == NoDuBearerOnRemovedCu /\ NoCuBearerOnRemovedDu
====
